---- MODULE Spec2Model ----
(***************************************************************************)
(* Regicide: the rules engine of js/game.js (class RegicideGame) as a      *)
(* state machine.  Every engine operation is a pure operator from a game   *)
(* record to a game record plus the returned result, translated statement  *)
(* by statement; the actions apply the operators to the variables.         *)
(*                                                                         *)
(* Abstractions: the rolling log (addLog) and the field yieldUsed are      *)
(* written but never read by the engine and are left out; an event's       *)
(* message text is reduced to the suit and the amount it names.            *)
(* Math.random is modelled by letting a deal fix the outcome of the        *)
(* shuffles (any permutation is a possible outcome).                       *)
(*                                                                         *)
(* Two specifications: Spec plays matches (reset and the four operations   *)
(* on the game); ComboSpec applies the pure function isValidCombo to a     *)
(* selection of cards drawn from a bounded set.                            *)
(***************************************************************************)
EXTENDS Integers, Sequences, FiniteSets, TLC

VARIABLES
    playerCount,        \* this.playerCount
    tavern,             \* this.tavern: draw pile, top = last element
    castle,             \* this.castle: enemy queue, head = next enemy
    discard,            \* this.discard: top = last element
    hands,              \* this.hands: player index (0-based) -> sequence of cards
    currentPlayer,      \* this.currentPlayer
    phase,              \* this.phase
    currentEnemy,       \* this.currentEnemy
    currentEnemyHP,     \* this.currentEnemyHP
    currentEnemyMaxHP,  \* this.currentEnemyMaxHP
    currentEnemyAttack, \* this.currentEnemyAttack
    shieldAmount,       \* this.shieldAmount
    discardNeeded,      \* this.discardNeeded
    discardedSoFar,     \* this.discardedSoFar
    enemiesDefeated,    \* this.enemiesDefeated
    jokersAvailable,    \* this.jokersAvailable
    jokersUsed,         \* this.jokersUsed
    removed,            \* history: enemy cards dropped from the game by an overkill
    last,               \* history: the last accepted call and the result it returned
    deal,               \* driver: which deal (outcome of the shuffles) reset() produced
    pos,                \* driver: how many calls of the deal's walkthrough have been made
    ops                 \* driver: accepted calls made off the walkthrough

gameVars == <<playerCount, tavern, castle, discard, hands, currentPlayer, phase,
              currentEnemy, currentEnemyHP, currentEnemyMaxHP, currentEnemyAttack,
              shieldAmount, discardNeeded, discardedSoFar, enemiesDefeated,
              jokersAvailable, jokersUsed>>

vars == <<playerCount, tavern, castle, discard, hands, currentPlayer, phase,
          currentEnemy, currentEnemyHP, currentEnemyMaxHP, currentEnemyAttack,
          shieldAmount, discardNeeded, discardedSoFar, enemiesDefeated,
          jokersAvailable, jokersUsed, removed, last, deal, pos, ops>>

----------------------------------------------------------------------------
(* Sequence helpers standing for the JavaScript array methods used.        *)

Min(a, b) == IF a < b THEN a ELSE b

Max(a, b) == IF a > b THEN a ELSE b

\* arr.map(f)
MapSeq(arr, f(_)) == [i \in 1..Len(arr) |-> f(arr[i])]

\* arr.some(test)
Some(arr, test(_)) == \E i \in 1..Len(arr) : test(arr[i])

\* arr.every(test)
Every(arr, test(_)) == \A i \in 1..Len(arr) : test(arr[i])

\* arr.includes(x)
Includes(arr, x) == \E i \in 1..Len(arr) : arr[i] = x

\* arr.indexOf(x), 1-based; 0 stands for -1
IndexOf(arr, x) ==
    LET at == {i \in 1..Len(arr) : arr[i] = x}
    IN  IF at = {} THEN 0 ELSE CHOOSE i \in at : \A j \in at : i <= j

\* arr.splice(idx, 1) for a 1-based idx
SpliceOut(arr, idx) == SubSeq(arr, 1, idx - 1) \o SubSeq(arr, idx + 1, Len(arr))

\* idx = arr.indexOf(x); if (idx !== -1) arr.splice(idx, 1)
RemoveFirst(arr, x) ==
    LET idx == IndexOf(arr, x)
    IN  IF idx = 0 THEN arr ELSE SpliceOut(arr, idx)

\* arr.pop(): the element taken and the array left
Top(arr) == arr[Len(arr)]

Popped(arr) == SubSeq(arr, 1, Len(arr) - 1)

Reverse(arr) == [i \in 1..Len(arr) |-> arr[Len(arr) + 1 - i]]

RECURSIVE SumSeq(_)
SumSeq(ns) == IF ns = <<>> THEN 0 ELSE Head(ns) + SumSeq(Tail(ns))

ToSet(arr) == {arr[i] : i \in 1..Len(arr)}

\* how many times x occurs in arr
Count(arr, x) == Cardinality({i \in 1..Len(arr) : arr[i] = x})

----------------------------------------------------------------------------
(* Cards and decks.                                                        *)

SUITS == <<"hearts", "diamonds", "clubs", "spades">>

RANKS == <<"A", "2", "3", "4", "5", "6", "7", "8", "9", "10">>

FACE_RANKS == <<"J", "Q", "K">>

\* { suit, rank, id: `${rank}_${suit}` }
Card(rank, suit) == [suit |-> suit, rank |-> rank, id |-> rank \o "_" \o suit]

\* { suit: 'joker', rank: 'Joker', id: `Joker_${i + 1}` }, i + 1 = 1 or 2
Joker(n) == [suit |-> "joker", rank |-> "Joker", id |-> IF n = 1 THEN "Joker_1" ELSE "Joker_2"]

\* null / undefined where a card is expected
NoCard == [suit |-> "null", rank |-> "null", id |-> "null"]

\* null / undefined where a card id is expected (falsy)
NoId == ""

\* parseInt(card.rank) on the numeral ranks
ParseInt(rank) ==
    CASE rank = "2" -> 2 [] rank = "3" -> 3 [] rank = "4" -> 4 [] rank = "5" -> 5
      [] rank = "6" -> 6 [] rank = "7" -> 7 [] rank = "8" -> 8 [] rank = "9" -> 9
      [] rank = "10" -> 10

cardValue(card) ==
    IF card.rank = "Joker" THEN 0
    ELSE IF card.rank = "A" THEN 1
    ELSE IF card.rank = "J" THEN 10
    ELSE IF card.rank = "Q" THEN 15
    ELSE IF card.rank = "K" THEN 20
    ELSE ParseInt(card.rank)

enemyMaxHP(card) ==
    IF card.rank = "J" THEN 20
    ELSE IF card.rank = "Q" THEN 30
    ELSE IF card.rank = "K" THEN 40
    ELSE 0

enemyAttack(card) ==
    IF card.rank = "J" THEN 10
    ELSE IF card.rank = "Q" THEN 15
    ELSE IF card.rank = "K" THEN 20
    ELSE 0

\* the deck before shuffling: suits outer loop, ranks inner loop, then the jokers
createDeck(n) ==
    LET plain == [k \in 1..(Len(SUITS) * Len(RANKS)) |->
                     Card(RANKS[((k - 1) % Len(RANKS)) + 1], SUITS[((k - 1) \div Len(RANKS)) + 1])]
        jokerCount == IF n >= 2 THEN (IF n = 2 THEN 2 ELSE IF n = 3 THEN 1 ELSE 0) ELSE 0
    IN  plain \o [i \in 1..jokerCount |-> Joker(i)]

\* an enemy deck stacked Kings first, then Queens, then Jacks
createEnemyDeckKingsFirst(order) ==
    [k \in 1..(Len(FACE_RANKS) * Len(SUITS)) |->
        Card(FACE_RANKS[Len(FACE_RANKS) - ((k - 1) \div Len(SUITS))],
             order[((k - 1) \div Len(SUITS)) + 1][((k - 1) % Len(SUITS)) + 1])]

\* [...jacks, ...queens, ...kings], each tier in the order its shuffle left it:
\* order[t] is the suit order of tier t
createEnemyDeck(order) ==
    [k \in 1..(Len(FACE_RANKS) * Len(SUITS)) |->
        Card(FACE_RANKS[((k - 1) \div Len(SUITS)) + 1],
             order[((k - 1) \div Len(SUITS)) + 1][((k - 1) % Len(SUITS)) + 1])]

\* every card id of a game for n players: the deck and the twelve enemies
AllCards(n) == ToSet(createDeck(n)) \cup ToSet(createEnemyDeck(<<SUITS, SUITS, SUITS>>))

comboValue(cards) == SumSeq(MapSeq(cards, cardValue))

\* [...new Set(cards.map(c => c.suit))], used only through includes()
comboSuits(cards) == {cards[i].suit : i \in 1..Len(cards)}

IsAce(c) == c.rank = "A"

NotAce(c) == c.rank # "A"

IsJoker(c) == c.rank = "Joker"

IsFace(c) == Includes(FACE_RANKS, c.rank)

\* isValidCombo looking for a Joker in the first place only
isValidComboHeadJoker(cards) ==
    IF Len(cards) = 0 THEN FALSE
    ELSE IF IsJoker(cards[1]) THEN FALSE
    ELSE IF Len(cards) = 1 THEN TRUE
    ELSE LET aces == SelectSeq(cards, IsAce)
             nonAces == SelectSeq(cards, NotAce)
         IN  IF Some(nonAces, IsFace) THEN FALSE
             ELSE IF Len(nonAces) = 0 THEN Len(aces) <= 4
             ELSE IF Len(aces) > 0 /\ Len(nonAces) = 1 THEN TRUE
             ELSE IF Len(aces) = 0
                  THEN LET rank == nonAces[1].rank
                       IN  IF ~ \A i \in 1..Len(nonAces) : nonAces[i].rank = rank THEN FALSE
                           ELSE IF Includes(FACE_RANKS, rank) THEN FALSE
                           ELSE IF Len(nonAces) > 4 THEN FALSE
                           ELSE comboValue(nonAces) <= 10
                  ELSE FALSE

\* isValidCombo without the cap of 10 on a same-rank combo
isValidComboNoCap(cards) ==
    IF Len(cards) = 0 THEN FALSE
    ELSE IF Some(cards, IsJoker) THEN FALSE
    ELSE IF Len(cards) = 1 THEN TRUE
    ELSE LET aces == SelectSeq(cards, IsAce)
             nonAces == SelectSeq(cards, NotAce)
         IN  IF Some(nonAces, IsFace) THEN FALSE
             ELSE IF Len(nonAces) = 0 THEN Len(aces) <= 4
             ELSE IF Len(aces) > 0 /\ Len(nonAces) = 1 THEN TRUE
             ELSE IF Len(aces) = 0
                  THEN LET rank == nonAces[1].rank
                       IN  IF ~ \A i \in 1..Len(nonAces) : nonAces[i].rank = rank THEN FALSE
                           ELSE IF Includes(FACE_RANKS, rank) THEN FALSE
                           ELSE Len(nonAces) <= 4
                  ELSE FALSE

\* isValidCombo without the rejection of a face card among the non-aces
isValidComboFacesPaired(cards) ==
    IF Len(cards) = 0 THEN FALSE
    ELSE IF Some(cards, IsJoker) THEN FALSE
    ELSE IF Len(cards) = 1 THEN TRUE
    ELSE LET aces == SelectSeq(cards, IsAce)
             nonAces == SelectSeq(cards, NotAce)
         IN  IF Len(nonAces) = 0 THEN Len(aces) <= 4
             ELSE IF Len(aces) > 0 /\ Len(nonAces) = 1 THEN TRUE
             ELSE IF Len(aces) = 0
                  THEN LET rank == nonAces[1].rank
                       IN  IF ~ \A i \in 1..Len(nonAces) : nonAces[i].rank = rank THEN FALSE
                           ELSE IF Includes(FACE_RANKS, rank) THEN FALSE
                           ELSE IF Len(nonAces) > 4 THEN FALSE
                           ELSE comboValue(nonAces) <= 10
                  ELSE FALSE

isValidCombo(cards) ==
    IF Len(cards) = 0 THEN FALSE
    ELSE IF Some(cards, IsJoker) THEN FALSE
    ELSE IF Len(cards) = 1 THEN TRUE
    ELSE LET aces == SelectSeq(cards, IsAce)
             nonAces == SelectSeq(cards, NotAce)
         IN  IF Some(nonAces, IsFace) THEN FALSE
             ELSE IF Len(nonAces) = 0 THEN Len(aces) <= 4
             ELSE IF Len(aces) > 0 /\ Len(nonAces) = 1 THEN TRUE
             ELSE IF Len(aces) = 0
                  THEN LET rank == nonAces[1].rank
                       IN  IF ~ \A i \in 1..Len(nonAces) : nonAces[i].rank = rank THEN FALSE
                           ELSE IF Includes(FACE_RANKS, rank) THEN FALSE
                           ELSE IF Len(nonAces) > 4 THEN FALSE
                           ELSE comboValue(nonAces) <= 10
                  ELSE FALSE

----------------------------------------------------------------------------
(* The engine: class RegicideGame.  A game is a record of the fields.      *)

State ==
    [playerCount |-> playerCount, tavern |-> tavern, castle |-> castle,
     discard |-> discard, hands |-> hands, currentPlayer |-> currentPlayer,
     phase |-> phase, currentEnemy |-> currentEnemy,
     currentEnemyHP |-> currentEnemyHP, currentEnemyMaxHP |-> currentEnemyMaxHP,
     currentEnemyAttack |-> currentEnemyAttack, shieldAmount |-> shieldAmount,
     discardNeeded |-> discardNeeded, discardedSoFar |-> discardedSoFar,
     enemiesDefeated |-> enemiesDefeated, jokersAvailable |-> jokersAvailable,
     jokersUsed |-> jokersUsed]

\* an entry of a result's events list: its type, the suit its message names, its amount
Event(type, suit, amount) == [type |-> type, suit |-> suit, amount |-> amount]

\* the object an operation returns
Result(success, message, events, flag) ==
    [success |-> success, message |-> message, events |-> events, flag |-> flag]

\* what an operation leaves: the game, the returned object, the enemy cards it dropped
Outcome(s, result, dropped) == [state |-> s, result |-> result, dropped |-> dropped]

\* return { success: false, message }
Reject(s, message) == Outcome(s, Result(FALSE, message, <<>>, "rejected"), {})

getMaxHandSize(s) ==
    IF s.playerCount = 1 THEN 8
    ELSE IF s.playerCount = 2 THEN 7
    ELSE IF s.playerCount = 3 THEN 6
    ELSE 5

\* an attack that no shield reduces (C10 tells it from effectiveAttack)
effectiveAttackUnshielded(s) == Max(0, s.currentEnemyAttack)

\* Math.max(0, this.currentEnemyAttack - this.shieldAmount)
effectiveAttack(s) == Max(0, s.currentEnemyAttack - s.shieldAmount)

handValue(hand) == SumSeq(MapSeq(hand, cardValue))

\* a reveal that leaves the shield raised against the enemy before
revealEnemyShieldKept(s) ==
    IF Len(s.castle) = 0
    THEN [s EXCEPT !.phase = "victory"]
    ELSE LET enemy == Head(s.castle)
         IN  [s EXCEPT !.castle = Tail(s.castle),
                       !.currentEnemy = enemy,
                       !.currentEnemyHP = enemyMaxHP(enemy),
                       !.currentEnemyMaxHP = enemyMaxHP(enemy),
                       !.currentEnemyAttack = enemyAttack(enemy)]

revealEnemy(s) ==
    IF Len(s.castle) = 0
    THEN [s EXCEPT !.phase = "victory"]
    ELSE LET enemy == Head(s.castle)
         IN  [s EXCEPT !.castle = Tail(s.castle),
                       !.currentEnemy = enemy,
                       !.currentEnemyHP = enemyMaxHP(enemy),
                       !.currentEnemyMaxHP = enemyMaxHP(enemy),
                       !.currentEnemyAttack = enemyAttack(enemy),
                       !.shieldAmount = 0]

\* the dealing loops of reset(): player i takes handSize cards off the top, one by one
RECURSIVE dealHands(_, _, _, _, _)
dealHands(tav, hnds, n, handSize, k) ==
    IF k >= n * handSize THEN [tavern |-> tav, hands |-> hnds]
    ELSE IF Len(tav) > 0
         THEN dealHands(Popped(tav),
                        [hnds EXCEPT ![k \div handSize] = Append(@, Top(tav))],
                        n, handSize, k + 1)
         ELSE dealHands(tav, hnds, n, handSize, k + 1)

\* a reset that deals seven cards to each player whatever the mode
resetSevenEach(n, shuffledDeck, enemyDeck) ==
    LET handSize == 7
        dealt == dealHands(shuffledDeck, [i \in 0..(n - 1) |-> <<>>], n, handSize, 0)
    IN  revealEnemy(
            [playerCount |-> n, tavern |-> dealt.tavern, castle |-> enemyDeck,
             discard |-> <<>>, hands |-> dealt.hands, currentPlayer |-> 0,
             phase |-> "play", currentEnemy |-> NoCard,
             currentEnemyHP |-> 0, currentEnemyMaxHP |-> 0,
             currentEnemyAttack |-> 0, shieldAmount |-> 0,
             discardNeeded |-> 0, discardedSoFar |-> <<>>,
             enemiesDefeated |-> 0, jokersAvailable |-> IF n = 1 THEN 2 ELSE 0,
             jokersUsed |-> 0])

\* reset(), given what shuffle(createDeck(n)) and createEnemyDeck() returned
reset(n, shuffledDeck, enemyDeck) ==
    LET handSize == IF n = 1 THEN 8 ELSE IF n = 2 THEN 7 ELSE IF n = 3 THEN 6 ELSE 5
        dealt == dealHands(shuffledDeck, [i \in 0..(n - 1) |-> <<>>], n, handSize, 0)
    IN  revealEnemy(
            [playerCount |-> n, tavern |-> dealt.tavern, castle |-> enemyDeck,
             discard |-> <<>>, hands |-> dealt.hands, currentPlayer |-> 0,
             phase |-> "play", currentEnemy |-> NoCard,
             currentEnemyHP |-> 0, currentEnemyMaxHP |-> 0,
             currentEnemyAttack |-> 0, shieldAmount |-> 0,
             discardNeeded |-> 0, discardedSoFar |-> <<>>,
             enemiesDefeated |-> 0, jokersAvailable |-> IF n = 1 THEN 2 ELSE 0,
             jokersUsed |-> 0])

\* hand.find(c => c.id === id)
Find(hand, id) ==
    LET at == {i \in 1..Len(hand) : hand[i].id = id}
    IN  IF at = {} THEN NoCard ELSE hand[CHOOSE i \in at : \A j \in at : i <= j]

IsCard(c) == c # NoCard

\* cardIds.map(id => hand.find(c => c.id === id)).filter(Boolean)
Resolve(hand, cardIds) ==
    LET found == [i \in 1..Len(cardIds) |-> Find(hand, cardIds[i])]
    IN  SelectSeq(found, IsCard)

\* for (const card of cards) { idx = hand.indexOf(card); if (idx !== -1) hand.splice(idx, 1) }
RECURSIVE removeFromHand(_, _)
removeFromHand(hand, cards) ==
    IF cards = <<>> THEN hand
    ELSE removeFromHand(RemoveFirst(hand, Head(cards)), Tail(cards))

\* for (i = 0; i < maxHandSize; i++) if (tavern.length > 0) hand.push(tavern.pop())
RECURSIVE drawUp(_, _, _)
drawUp(tav, hand, k) ==
    IF k = 0 THEN [tavern |-> tav, hand |-> hand]
    ELSE IF Len(tav) > 0 THEN drawUp(Popped(tav), Append(hand, Top(tav)), k - 1)
    ELSE drawUp(tav, hand, k - 1)

\* a playJoker that resets the solo hand with no joker left as well
playJokerUncounted(s, playerIndex) ==
    IF s.phase # "play" THEN Reject(s, "Not in play phase")
    ELSE IF playerIndex # s.currentPlayer THEN Reject(s, "Not your turn")
    ELSE LET hand == s.hands[playerIndex]
         IN  IF s.playerCount = 1
             THEN LET drew == drawUp(s.tavern, <<>>, getMaxHandSize(s))
                  IN  Outcome([s EXCEPT !.discard = @ \o hand,
                                        !.tavern = drew.tavern,
                                        !.hands[playerIndex] = drew.hand,
                                        !.jokersAvailable = @ - 1,
                                        !.jokersUsed = @ + 1],
                              Result(TRUE, "Hand reset", <<>>, "joker"), {})
             ELSE IF ~Some(hand, IsJoker) THEN Reject(s, "No Joker in hand")
                  ELSE LET jokerIndex == CHOOSE i \in 1..Len(hand) :
                                            /\ IsJoker(hand[i])
                                            /\ \A j \in 1..(i - 1) : ~IsJoker(hand[j])
                           rest == SpliceOut(hand, jokerIndex)
                           drew == drawUp(s.tavern, <<>>, getMaxHandSize(s))
                       IN  Outcome([s EXCEPT !.discard = Append(@, hand[jokerIndex]) \o rest,
                                             !.tavern = drew.tavern,
                                             !.hands[playerIndex] = drew.hand,
                                             !.jokersUsed = @ + 1],
                                   Result(TRUE, "Hand reset", <<>>, "joker"), {})

playJoker(s, playerIndex) ==
    IF s.phase # "play" THEN Reject(s, "Not in play phase")
    ELSE IF playerIndex # s.currentPlayer THEN Reject(s, "Not your turn")
    ELSE LET hand == s.hands[playerIndex]
         IN  IF s.playerCount = 1
             THEN IF s.jokersAvailable <= 0 THEN Reject(s, "No Jokers available")
                  ELSE LET drew == drawUp(s.tavern, <<>>, getMaxHandSize(s))
                       IN  Outcome([s EXCEPT !.discard = @ \o hand,
                                             !.tavern = drew.tavern,
                                             !.hands[playerIndex] = drew.hand,
                                             !.jokersAvailable = @ - 1,
                                             !.jokersUsed = @ + 1],
                                   Result(TRUE, "Hand reset", <<>>, "joker"), {})
             ELSE IF ~Some(hand, IsJoker) THEN Reject(s, "No Joker in hand")
                  ELSE LET jokerIndex == CHOOSE i \in 1..Len(hand) :
                                            /\ IsJoker(hand[i])
                                            /\ \A j \in 1..(i - 1) : ~IsJoker(hand[j])
                           rest == SpliceOut(hand, jokerIndex)
                           drew == drawUp(s.tavern, <<>>, getMaxHandSize(s))
                       IN  Outcome([s EXCEPT !.discard = Append(@, hand[jokerIndex]) \o rest,
                                             !.tavern = drew.tavern,
                                             !.hands[playerIndex] = drew.hand,
                                             !.jokersUsed = @ + 1],
                                   Result(TRUE, "Hand reset", <<>>, "joker"), {})

\* a diamonds loop that hands a card to a full hand too
RECURSIVE drawDiamondsUncapped(_, _, _, _)
drawDiamondsUncapped(s, playerIndex, drawCount, i) ==
    IF i >= drawCount THEN s
    ELSE LET targetPlayer == (playerIndex + i) % s.playerCount
         IN  IF Len(s.tavern) > 0
             THEN drawDiamondsUncapped([s EXCEPT !.hands[targetPlayer] = Append(@, Top(s.tavern)),
                                                 !.tavern = Popped(@)],
                                       playerIndex, drawCount, i + 1)
             ELSE drawDiamondsUncapped(s, playerIndex, drawCount, i + 1)

\* the diamonds loop: for (i = 0; i < drawCount; i++) one card to player
\* (playerIndex + i) % playerCount unless that hand is full
RECURSIVE drawDiamonds(_, _, _, _)
drawDiamonds(s, playerIndex, drawCount, i) ==
    IF i >= drawCount THEN s
    ELSE LET targetPlayer == (playerIndex + i) % s.playerCount
         IN  IF Len(s.tavern) > 0 /\ Len(s.hands[targetPlayer]) < getMaxHandSize(s)
             THEN drawDiamonds([s EXCEPT !.hands[targetPlayer] = Append(@, Top(s.tavern)),
                                         !.tavern = Popped(@)],
                               playerIndex, drawCount, i + 1)
             ELSE drawDiamonds(s, playerIndex, drawCount, i + 1)

\* a hearts loop that puts each card on top of the tavern
RECURSIVE healHeartsOnTop(_, _)
healHeartsOnTop(s, healCount) ==
    IF healCount = 0 THEN s
    ELSE IF Len(s.discard) > 0
         THEN healHeartsOnTop([s EXCEPT !.tavern = Append(@, Top(s.discard)),
                                        !.discard = Popped(@)],
                              healCount - 1)
         ELSE healHeartsOnTop(s, healCount - 1)

\* the hearts loop: healCount times tavern.unshift(discard.pop())
RECURSIVE healHearts(_, _)
healHearts(s, healCount) ==
    IF healCount = 0 THEN s
    ELSE IF Len(s.discard) > 0
         THEN healHearts([s EXCEPT !.tavern = <<Top(s.discard)>> \o @,
                                   !.discard = Popped(@)],
                         healCount - 1)
         ELSE healHearts(s, healCount - 1)

\* a step of playCards: the game so far and the events pushed so far
Ctx(s, events) == [s |-> s, events |-> events]

\* clubs that double the damage against a club too (C7 tells it from clubsPower)
clubsPowerNoImmunity(s, suits, damage) ==
    IF "clubs" \in suits
    THEN [totalDamage |-> damage * 2, events |-> <<Event("clubs", "clubs", damage * 2)>>]
    ELSE [totalDamage |-> damage, events |-> <<>>]

\* clubs: the damage applied to HP (doubled unless the enemy is a club)
clubsPower(s, suits, damage) ==
    IF "clubs" \in suits
    THEN IF s.currentEnemy.suit = "clubs"
         THEN [totalDamage |-> damage, events |-> <<Event("immunity", "clubs", 0)>>]
         ELSE [totalDamage |-> damage * 2, events |-> <<Event("clubs", "clubs", damage * 2)>>]
    ELSE [totalDamage |-> damage, events |-> <<>>]

diamondsPower(c, playerIndex, suits, damage) ==
    IF "diamonds" \in suits
    THEN IF c.s.currentEnemy.suit = "diamonds"
         THEN Ctx(c.s, Append(c.events, Event("immunity", "diamonds", 0)))
         ELSE LET drawCount == Min(damage, Len(c.s.tavern))
                  after == drawDiamonds(c.s, playerIndex, drawCount, 0)
                  drawn == Len(c.s.tavern) - Len(after.tavern)
              IN  Ctx(after, IF drawn > 0
                             THEN Append(c.events, Event("diamonds", "diamonds", drawn))
                             ELSE c.events)
    ELSE c

\* spades that set the shield to the damage of the play instead of adding it
spadesPowerOverwriting(c, suits, damage) ==
    IF "spades" \in suits
    THEN IF c.s.currentEnemy.suit = "spades"
         THEN Ctx(c.s, Append(c.events, Event("immunity", "spades", 0)))
         ELSE LET after == [c.s EXCEPT !.shieldAmount = damage]
              IN  Ctx(after, Append(c.events, Event("spades", "spades", effectiveAttack(after))))
    ELSE c

spadesPower(c, suits, damage) ==
    IF "spades" \in suits
    THEN IF c.s.currentEnemy.suit = "spades"
         THEN Ctx(c.s, Append(c.events, Event("immunity", "spades", 0)))
         ELSE LET after == [c.s EXCEPT !.shieldAmount = @ + damage]
              IN  Ctx(after, Append(c.events, Event("spades", "spades", effectiveAttack(after))))
    ELSE c

heartsPower(c, suits, damage) ==
    IF "hearts" \in suits
    THEN IF c.s.currentEnemy.suit = "hearts"
         THEN Ctx(c.s, Append(c.events, Event("immunity", "hearts", 0)))
         ELSE LET healCount == Min(damage, Len(c.s.discard))
              IN  Ctx(healHearts(c.s, healCount),
                      IF healCount > 0
                      THEN Append(c.events, Event("hearts", "hearts", healCount))
                      ELSE c.events)
    ELSE c

\* a defeat that puts the enemy on the discard pile whatever its HP (C8 tells
\* it from enemyDefeated)
enemyDefeatedKept(c, cards) ==
    LET s == c.s
        after == revealEnemy([s EXCEPT !.enemiesDefeated = @ + 1,
                                       !.discard = Append(s.discard \o cards, s.currentEnemy),
                                       !.phase = "play",
                                       !.currentPlayer = (s.currentPlayer + 1) % s.playerCount])
    IN  Outcome(after,
                Result(TRUE, "", Append(c.events, Event("defeat", s.currentEnemy.suit, 0)), "defeated"),
                IF s.currentEnemyHP = 0 THEN {} ELSE {s.currentEnemy})

\* a defeat that reveals the next enemy without counting the fallen one
enemyDefeatedUncounted(c, cards) ==
    LET s == c.s
        pile == IF s.currentEnemyHP = 0
                THEN Append(s.discard \o cards, s.currentEnemy)
                ELSE s.discard \o cards
        after == revealEnemy([s EXCEPT !.discard = pile,
                                       !.phase = "play",
                                       !.currentPlayer = (s.currentPlayer + 1) % s.playerCount])
    IN  Outcome(after,
                Result(TRUE, "", Append(c.events, Event("defeat", s.currentEnemy.suit, 0)), "defeated"),
                IF s.currentEnemyHP = 0 THEN {} ELSE {s.currentEnemy})

\* the enemy is defeated: played cards and, on HP exactly 0, the enemy go to discard
enemyDefeated(c, cards) ==
    LET s == c.s
        pile == IF s.currentEnemyHP = 0
                THEN Append(s.discard \o cards, s.currentEnemy)
                ELSE s.discard \o cards
        after == revealEnemy([s EXCEPT !.enemiesDefeated = @ + 1,
                                       !.discard = pile,
                                       !.phase = "play",
                                       !.currentPlayer = (s.currentPlayer + 1) % s.playerCount])
    IN  Outcome(after,
                Result(TRUE, "", Append(c.events, Event("defeat", s.currentEnemy.suit, 0)), "defeated"),
                IF s.currentEnemyHP = 0 THEN {} ELSE {s.currentEnemy})

\* the enemy survives: played cards go to discard, then the enemy attacks
enemyAttacks(c, cards) ==
    LET s == [c.s EXCEPT !.discard = @ \o cards]
        attack == effectiveAttack(s)
    IN  IF attack > 0
        THEN LET entered == [s EXCEPT !.discardNeeded = attack,
                                      !.discardedSoFar = <<>>,
                                      !.phase = "discard"]
                 events == Append(c.events, Event("enemy_attack", "", attack))
                 anyoneHasCards == \E p \in DOMAIN entered.hands : Len(entered.hands[p]) > 0
             IN  IF /\ Len(entered.hands[entered.currentPlayer]) = 0
                    /\ ~anyoneHasCards
                    /\ Len(entered.tavern) = 0
                 THEN Outcome([entered EXCEPT !.phase = "gameover"],
                              Result(TRUE, "", Append(events, Event("gameover", "", 0)), "attack"), {})
                 ELSE Outcome(entered, Result(TRUE, "", events, "attack"), {})
        ELSE Outcome([s EXCEPT !.currentPlayer = (s.currentPlayer + 1) % s.playerCount],
                     Result(TRUE, "", Append(c.events, Event("shielded", "", 0)), "shielded"), {})

\* playCards once the selection is accepted
\* a play whose doubled damage also feeds the diamonds, spades and hearts powers
resolvePlayDoubledPowers(s, playerIndex, cards) ==
    LET damage == comboValue(cards)
        suits == comboSuits(cards)
        clubs == clubsPower(s, suits, damage)
        hit == Ctx([s EXCEPT !.hands[playerIndex] = removeFromHand(@, cards),
                             !.currentEnemyHP = @ - clubs.totalDamage],
                   Append(clubs.events, Event("damage", "", clubs.totalDamage)))
        powered == heartsPower(spadesPower(diamondsPower(hit, playerIndex, suits, clubs.totalDamage),
                                           suits, clubs.totalDamage),
                               suits, clubs.totalDamage)
    IN  IF powered.s.currentEnemyHP <= 0
        THEN enemyDefeated(powered, cards)
        ELSE enemyAttacks(powered, cards)

\* a play that defeats the enemy only when its HP falls below 0
resolvePlayBelowZero(s, playerIndex, cards) ==
    LET damage == comboValue(cards)
        suits == comboSuits(cards)
        clubs == clubsPower(s, suits, damage)
        hit == Ctx([s EXCEPT !.hands[playerIndex] = removeFromHand(@, cards),
                             !.currentEnemyHP = @ - clubs.totalDamage],
                   Append(clubs.events, Event("damage", "", clubs.totalDamage)))
        powered == heartsPower(spadesPower(diamondsPower(hit, playerIndex, suits, damage),
                                           suits, damage),
                               suits, damage)
    IN  IF powered.s.currentEnemyHP < 0
        THEN enemyDefeated(powered, cards)
        ELSE enemyAttacks(powered, cards)

resolvePlay(s, playerIndex, cards) ==
    LET damage == comboValue(cards)
        suits == comboSuits(cards)
        clubs == clubsPower(s, suits, damage)
        hit == Ctx([s EXCEPT !.hands[playerIndex] = removeFromHand(@, cards),
                             !.currentEnemyHP = @ - clubs.totalDamage],
                   Append(clubs.events, Event("damage", "", clubs.totalDamage)))
        powered == heartsPower(spadesPower(diamondsPower(hit, playerIndex, suits, damage),
                                           suits, damage),
                               suits, damage)
    IN  IF powered.s.currentEnemyHP <= 0
        THEN enemyDefeated(powered, cards)
        ELSE enemyAttacks(powered, cards)

\* a playCards that plays the ids it finds and skips the others (C4 tells it
\* from playCards)
playCardsSkippingMissing(s, playerIndex, cardIds) ==
    IF s.phase # "play" THEN Reject(s, "Not in play phase")
    ELSE IF playerIndex # s.currentPlayer THEN Reject(s, "Not your turn")
    ELSE LET cards == Resolve(s.hands[playerIndex], cardIds)
         IN  IF ~isValidCombo(cards) THEN Reject(s, "Invalid card combination")
             ELSE resolvePlay(s, playerIndex, cards)

playCards(s, playerIndex, cardIds) ==
    IF s.phase # "play" THEN Reject(s, "Not in play phase")
    ELSE IF playerIndex # s.currentPlayer THEN Reject(s, "Not your turn")
    ELSE LET cards == Resolve(s.hands[playerIndex], cardIds)
         IN  IF Len(cards) # Len(cardIds) THEN Reject(s, "Invalid cards selected")
             ELSE IF ~isValidCombo(cards) THEN Reject(s, "Invalid card combination")
             ELSE resolvePlay(s, playerIndex, cards)

\* the loop of discardCards: each resolved card still in the hand moves to
\* discard and to discardedSoFar
RECURSIVE moveDiscards(_, _, _)
moveDiscards(s, playerIndex, cards) ==
    IF cards = <<>> THEN s
    ELSE LET card == Head(cards)
         IN  IF IndexOf(s.hands[playerIndex], card) # 0
             THEN moveDiscards([s EXCEPT !.hands[playerIndex] = RemoveFirst(@, card),
                                         !.discard = Append(@, card),
                                         !.discardedSoFar = Append(@, card)],
                               playerIndex, Tail(cards))
             ELSE moveDiscards(s, playerIndex, Tail(cards))

\* a discardCards that leaves its bookkeeping in place when the attack is survived
resolveDiscardUnreset(s, playerIndex, cardIds) ==
    LET cards == Resolve(s.hands[playerIndex], cardIds)
    IN  IF Len(cards) = 0 THEN Reject(s, "No valid cards selected")
        ELSE LET discardValue == handValue(cards)
                 totalSoFar == handValue(s.discardedSoFar) + discardValue
                 moved == moveDiscards(s, playerIndex, cards)
             IN  IF totalSoFar >= s.discardNeeded
                 THEN Outcome([moved EXCEPT !.phase = "play",
                                            !.currentPlayer = (s.currentPlayer + 1) % s.playerCount],
                              Result(TRUE, "Attack survived!", <<>>, "survived"), {})
                 ELSE IF Len(moved.hands[playerIndex]) = 0
                 THEN Outcome([moved EXCEPT !.phase = "gameover"],
                              Result(TRUE, "Game Over!", <<>>, "gameover"), {})
                 ELSE Outcome(moved, Result(TRUE, "Need more", <<>>, "remaining"), {})

\* discardCards once phase and turn are checked
resolveDiscard(s, playerIndex, cardIds) ==
    LET cards == Resolve(s.hands[playerIndex], cardIds)
    IN  IF Len(cards) = 0 THEN Reject(s, "No valid cards selected")
        ELSE LET discardValue == handValue(cards)
                 totalSoFar == handValue(s.discardedSoFar) + discardValue
                 moved == moveDiscards(s, playerIndex, cards)
             IN  IF totalSoFar >= s.discardNeeded
                 THEN Outcome([moved EXCEPT !.phase = "play",
                                            !.discardNeeded = 0,
                                            !.discardedSoFar = <<>>,
                                            !.currentPlayer = (s.currentPlayer + 1) % s.playerCount],
                              Result(TRUE, "Attack survived!", <<>>, "survived"), {})
                 ELSE IF Len(moved.hands[playerIndex]) = 0
                 THEN Outcome([moved EXCEPT !.phase = "gameover"],
                              Result(TRUE, "Game Over!", <<>>, "gameover"), {})
                 ELSE Outcome(moved, Result(TRUE, "Need more", <<>>, "remaining"), {})

\* a discardCards that takes cards in any phase (C2 tells it from discardCards)
discardCardsAnyPhase(s, playerIndex, cardIds) ==
    IF playerIndex # s.currentPlayer THEN Reject(s, "Not your turn to discard")
    ELSE resolveDiscard(s, playerIndex, cardIds)

discardCards(s, playerIndex, cardIds) ==
    IF s.phase # "discard" THEN Reject(s, "Not in discard phase")
    ELSE IF playerIndex # s.currentPlayer THEN Reject(s, "Not your turn to discard")
    ELSE resolveDiscard(s, playerIndex, cardIds)

\* a yield after which the turn passes on even when an attack is to be paid
resolveYieldPassing(s, playerIndex, discardCardId) ==
    LET hand == s.hands[playerIndex]
        card == Find(hand, discardCardId)
        yielded == IF discardCardId # NoId /\ card # NoCard
                   THEN [s EXCEPT !.hands[playerIndex] = SpliceOut(@, IndexOf(@, card)),
                                  !.discard = Append(@, card)]
                   ELSE s
        attack == effectiveAttack(yielded)
    IN  IF attack > 0
        THEN Outcome([yielded EXCEPT !.discardNeeded = attack,
                                     !.discardedSoFar = <<>>,
                                     !.phase = "discard",
                                     !.currentPlayer = (s.currentPlayer + 1) % s.playerCount],
                     Result(TRUE, "", <<>>, "discard"), {})
        ELSE Outcome([yielded EXCEPT !.currentPlayer = (s.currentPlayer + 1) % s.playerCount],
                     Result(TRUE, "", <<>>, "play"), {})

\* yieldTurn once phase and turn are checked
resolveYield(s, playerIndex, discardCardId) ==
    LET hand == s.hands[playerIndex]
        card == Find(hand, discardCardId)
        yielded == IF discardCardId # NoId /\ card # NoCard
                   THEN [s EXCEPT !.hands[playerIndex] = SpliceOut(@, IndexOf(@, card)),
                                  !.discard = Append(@, card)]
                   ELSE s
        attack == effectiveAttack(yielded)
    IN  IF attack > 0
        THEN LET entered == [yielded EXCEPT !.discardNeeded = attack,
                                            !.discardedSoFar = <<>>,
                                            !.phase = "discard"]
                 anyoneHasCards == \E p \in DOMAIN entered.hands : Len(entered.hands[p]) > 0
             IN  IF /\ Len(entered.hands[entered.currentPlayer]) = 0
                    /\ ~anyoneHasCards
                    /\ Len(entered.tavern) = 0
                 THEN Outcome([entered EXCEPT !.phase = "gameover"],
                              Result(TRUE, "", <<>>, "gameover"), {})
                 ELSE Outcome(entered, Result(TRUE, "", <<>>, "discard"), {})
        ELSE Outcome([yielded EXCEPT !.currentPlayer = (s.currentPlayer + 1) % s.playerCount],
                     Result(TRUE, "", <<>>, "play"), {})

\* a yieldTurn that is taken in any phase (C3 tells it from yieldTurn)
yieldTurnAnyPhase(s, playerIndex, discardCardId) ==
    IF playerIndex # s.currentPlayer THEN Reject(s, "Not your turn")
    ELSE resolveYield(s, playerIndex, discardCardId)

yieldTurn(s, playerIndex, discardCardId) ==
    IF s.phase # "play" THEN Reject(s, "Not in play phase")
    ELSE IF playerIndex # s.currentPlayer THEN Reject(s, "Not your turn")
    ELSE resolveYield(s, playerIndex, discardCardId)

----------------------------------------------------------------------------
(* The cooperative partner: class RegicideAI.  It reads the game through   *)
(* getState(): the hands, the enemy, its HP, the effective attack and the  *)
(* sizes of the piles.                                                     *)

\* the concatenation of a list of lists, in order
RECURSIVE Flat(_)
Flat(lists) == IF lists = <<>> THEN <<>> ELSE Head(lists) \o Flat(Tail(lists))

\* the k-element sublists of arr in the order the nested loops i < j < k visit them
RECURSIVE Choose(_, _)
Choose(arr, k) ==
    IF k = 0 THEN <<<<>>>>
    ELSE IF Len(arr) < k THEN <<>>
    ELSE LET rest == Choose(Tail(arr), k - 1)
         IN  [i \in 1..Len(rest) |-> <<Head(arr)>> \o rest[i]] \o Choose(Tail(arr), k)

\* the ranks of a hand in the order of their first card
RECURSIVE FirstSeen(_, _)
FirstSeen(hand, seen) ==
    IF hand = <<>> THEN <<>>
    ELSE IF Head(hand).rank \in seen THEN FirstSeen(Tail(hand), seen)
    ELSE <<Head(hand).rank>> \o FirstSeen(Tail(hand), seen \cup {Head(hand).rank})

\* the keys of byRank as `for (const rank in byRank)` visits them: the
\* numerals in ascending order, then the other ranks in insertion order
rankKeys(hand) ==
    LET Present(rank) == \E i \in 1..Len(hand) : hand[i].rank = rank
        Worded(rank) == rank \notin ToSet(Tail(RANKS))
    IN  SelectSeq(Tail(RANKS), Present) \o SelectSeq(FirstSeen(hand, {}), Worded)

\* byRank[rank]
rankGroup(hand, rank) == LET OfGroup(c) == c.rank = rank IN SelectSeq(hand, OfGroup)

\* the pairs, triples and the quad pushed for one group of byRank
sameRankPlays(group) ==
    IF Len(group) < 2 THEN <<>>
    ELSE Choose(group, 2)
         \o (IF Len(group) >= 3 THEN Choose(group, 3) ELSE <<>>)
         \o (IF Len(group) >= 4 THEN <<group>> ELSE <<>>)

\* the plays pushed for one non-Ace card: one, two and three Aces with it
companionPlays(aces, nonAce) ==
    LET With(k) == LET some == Choose(aces, k)
                   IN  [i \in 1..Len(some) |-> Append(some[i], nonAce)]
    IN  With(1)
        \o (IF Len(aces) >= 2 THEN With(2) ELSE <<>>)
        \o (IF Len(aces) >= 3 THEN With(3) ELSE <<>>)

\* getAllValidPlays with the final filter left out
candidatePlays(hand) ==
    LET keys == rankKeys(hand)
        aces == rankGroup(hand, "A")
        nonAces == SelectSeq(hand, NotAce)
    IN  [i \in 1..Len(hand) |-> <<hand[i]>>]
        \o Flat([k \in 1..Len(keys) |-> sameRankPlays(rankGroup(hand, keys[k]))])
        \o (IF Len(aces) > 0
            THEN Flat([n \in 1..Len(nonAces) |-> companionPlays(aces, nonAces[n])])
            ELSE <<>>)

\* an enumeration that leaves the plays unfiltered
getAllValidPlaysUnfiltered(hand) == candidatePlays(hand)

getAllValidPlays(hand) == SelectSeq(candidatePlays(hand), isValidCombo)

\* let totalDamage = damage; if (suits.includes('clubs')) totalDamage = damage * 2
totalDamage(cards) ==
    IF "clubs" \in comboSuits(cards) THEN comboValue(cards) * 2 ELSE comboValue(cards)

\* twice the score of scorePlay (the hearts bonus is damage * 1.5)
scorePlay(cards, s, playerIndex) ==
    LET damage == comboValue(cards)
        suits == comboSuits(cards)
        enemyHP == s.currentEnemyHP
        attack == effectiveAttack(s)
        hand == s.hands[playerIndex]
        handSize == Len(hand)
        Kept(c) == ~Includes(cards, c)
        attackAfter == attack
        handValueAfterPlay == handValue(SelectSeq(hand, Kept))
    IN  IF totalDamage(cards) >= enemyHP
        THEN 2 * (100 + (IF totalDamage(cards) = enemyHP THEN 50 ELSE 0) - Len(cards) * 5)
        ELSE 2 * (totalDamage(cards) * 2)
             + (IF "spades" \in suits /\ attack > 5 THEN 2 * (damage * 3) ELSE 0)
             + (IF "diamonds" \in suits /\ handSize < 4 THEN 2 * (damage * 2) ELSE 0)
             + (IF "hearts" \in suits /\ Len(s.discard) > 3 THEN damage * 3 ELSE 0)
             + (IF "clubs" \in suits THEN 2 * damage ELSE 0)
             - 2 * (Len(cards) * 3)
             - (IF s.currentEnemy.rank = "J" /\ damage > 7 THEN 2 * ((damage - 7) * 2) ELSE 0)
             - (IF attackAfter > 10 /\ "spades" \notin suits THEN 2 * attackAfter ELSE 0)
             - (IF handValueAfterPlay < attackAfter /\ attackAfter > 0 THEN 2 * 30 ELSE 0)

\* an action the partner returns: { type, cardIds } or { type, cardId } (no id: cardId null)
Decision(type, cardIds) == [type |-> type, cardIds |-> cardIds]

\* [...hand].sort((a, b) => cardValue(a) - cardValue(b))[0]: the sort is stable
lowestCard(hand) ==
    hand[CHOOSE i \in 1..Len(hand) :
            /\ \A j \in 1..Len(hand) : cardValue(hand[i]) <= cardValue(hand[j])
            /\ \A j \in 1..(i - 1) : cardValue(hand[j]) > cardValue(hand[i])]

\* the loop over plays: the first play of the highest score
bestPlay(plays, s, playerIndex) ==
    plays[CHOOSE i \in 1..Len(plays) :
            /\ \A j \in 1..Len(plays) : scorePlay(plays[i], s, playerIndex) >= scorePlay(plays[j], s, playerIndex)
            /\ \A j \in 1..(i - 1) : scorePlay(plays[j], s, playerIndex) < scorePlay(plays[i], s, playerIndex)]

Ids(cards) == [i \in 1..Len(cards) |-> cards[i].id]

decidePlay(s, playerIndex) ==
    LET hand == s.hands[playerIndex]
        plays == getAllValidPlays(hand)
    IN  IF s.currentEnemy = NoCard \/ Len(hand) = 0 THEN Decision("yield", <<>>)
        ELSE IF Len(plays) = 0 THEN Decision("yield", <<lowestCard(hand).id>>)
        ELSE LET best == bestPlay(plays, s, playerIndex)
             IN  IF scorePlay(best, s, playerIndex) > 2 * (-50)
                 THEN Decision("play", Ids(best))
                 ELSE Decision("yield", <<lowestCard(hand).id>>)

\* arr.sort((a, b) => cardValue(b) - cardValue(a)): stable, highest value first
RECURSIVE sortDescending(_)
sortDescending(arr) ==
    IF arr = <<>> THEN <<>>
    ELSE LET i == CHOOSE k \in 1..Len(arr) :
                     /\ \A j \in 1..Len(arr) : cardValue(arr[k]) >= cardValue(arr[j])
                     /\ \A j \in 1..(k - 1) : cardValue(arr[j]) < cardValue(arr[k])
         IN  <<arr[i]>> \o sortDescending(SpliceOut(arr, i))

\* the greedy loop: cards are taken from the front until their total reaches needed
RECURSIVE takeUntil(_, _, _)
takeUntil(sorted, needed, total) ==
    IF sorted = <<>> THEN <<>>
    ELSE IF total + cardValue(Head(sorted)) >= needed THEN <<Head(sorted)>>
    ELSE <<Head(sorted)>> \o takeUntil(Tail(sorted), needed, total + cardValue(Head(sorted)))

\* a choice that goes straight to the greedy loop
findOptimalDiscardGreedy(hand, needed) ==
    LET result == takeUntil(sortDescending(hand), needed, 0)
    IN  IF handValue(result) >= needed THEN result ELSE hand

findOptimalDiscard(hand, needed) ==
    LET Covers(c) == cardValue(c) >= needed
        singles == SelectSeq(hand, Covers)
        result == takeUntil(sortDescending(hand), needed, 0)
    IN  IF Len(singles) > 0 THEN <<lowestCard(singles)>>
        ELSE IF handValue(result) >= needed THEN result
        ELSE hand

decideDiscard(s, playerIndex) ==
    LET hand == s.hands[playerIndex]
        needed == s.discardNeeded - handValue(s.discardedSoFar)
    IN  IF Len(hand) = 0 \/ needed <= 0 THEN <<>>
        ELSE Ids(findOptimalDiscard(hand, needed))

----------------------------------------------------------------------------
(* The callers.  reset() shuffles; a deal fixes what the shuffles returned *)
(* (the named cards on top of the deck in that order, the rest below in    *)
(* deck order; the suit order of each enemy tier).  A deal also carries a  *)
(* walkthrough: a sequence of calls that plays the match on from the       *)
(* construction.  The callers make the calls of the walkthrough and then   *)
(* up to MaxOps accepted calls of their own choice; a call the engine      *)
(* rejects can be made at any time.                                        *)

\* accepted calls made after the walkthrough
MaxOps == 1

\* a caller names cards among the first MaxPick of the current player's hand
MaxPick == 2

\* longest list of card ids a caller passes
MaxIds == 2

\* a card id that is in no hand: it belongs to no card of the game
UnknownId == "0_stars"

Call(op, playerIndex, cardIds) == [op |-> op, playerIndex |-> playerIndex, cardIds |-> cardIds]

\* the deck as shuffle() left it: `top` (card ids) are the last cards, top[1] the very last
shuffledDeck(n, top) ==
    LET deck == createDeck(n)
        Below(c) == \A i \in 1..Len(top) : top[i] # c.id
        ById(id) == deck[CHOOSE k \in 1..Len(deck) : deck[k].id = id]
    IN  SelectSeq(deck, Below) \o Reverse([i \in 1..Len(top) |-> ById(top[i])])

Deal(n, top, order, script) == [n |-> n, top |-> top, order |-> order, script |-> script]

HDCS == <<"hearts", "diamonds", "clubs", "spades">>

CHDS == <<"clubs", "hearts", "diamonds", "spades">>

DHCS == <<"diamonds", "hearts", "clubs", "spades">>

SHCD == <<"spades", "hearts", "clubs", "diamonds">>

HCDS == <<"hearts", "clubs", "diamonds", "spades">>

CHSD == <<"clubs", "hearts", "spades", "diamonds">>

CDSH == <<"clubs", "diamonds", "spades", "hearts">>

\* two players, the Jack of Hearts first: player 0 is dealt the first seven cards
HeartsTop ==
    <<"A_spades", "10_clubs", "5_hearts", "5_diamonds", "5_spades", "9_diamonds", "A_diamonds",
      "A_hearts", "9_spades", "A_clubs", "3_spades", "Joker_1", "7_diamonds", "8_clubs">>

\* solo, the Jack of Clubs first: the whole deck in the order it is drawn
ClubsTop ==
    <<"A_clubs", "4_spades", "4_clubs", "9_clubs", "8_spades", "10_hearts", "9_hearts", "8_hearts",
      "10_spades", "10_clubs", "10_diamonds", "9_spades", "8_diamonds", "7_spades", "7_clubs", "7_hearts",
      "5_diamonds", "6_diamonds", "7_diamonds", "6_hearts", "6_clubs", "6_spades", "9_diamonds", "8_clubs",
      "5_hearts",
      "4_hearts", "4_diamonds", "5_clubs", "3_hearts", "3_diamonds", "3_clubs",
      "2_diamonds", "3_spades", "2_hearts", "2_clubs", "2_spades", "A_hearts", "A_spades",
      "5_spades", "A_diamonds">>

\* three players, the Jack of Diamonds first
DiamondsTop ==
    <<"A_diamonds", "6_hearts", "10_clubs", "3_diamonds", "3_hearts", "Joker_1",
      "2_diamonds", "2_spades", "A_clubs", "9_spades", "9_clubs", "4_hearts",
      "A_hearts", "7_diamonds", "2_clubs", "6_clubs", "8_hearts", "8_spades">>

\* four players, the Jack of Spades first
SpadesTop ==
    <<"A_spades", "7_clubs", "4_spades", "4_diamonds", "9_hearts",
      "2_hearts", "A_diamonds", "10_spades", "3_clubs", "6_diamonds",
      "5_clubs", "5_spades", "A_hearts", "8_diamonds", "2_clubs",
      "10_clubs", "A_clubs", "7_hearts", "6_spades", "3_diamonds">>

\* solo, the Jack of Hearts first: the whole deck in the order it is drawn
VictoryTop ==
    <<"6_diamonds", "8_spades", "5_spades", "9_hearts", "4_clubs", "A_spades", "5_hearts", "A_hearts",
      "9_spades", "7_spades", "8_diamonds", "8_hearts", "7_hearts", "3_clubs", "10_spades", "10_clubs",
      "5_clubs", "6_clubs", "3_diamonds", "A_clubs", "4_spades", "9_clubs", "10_diamonds", "7_diamonds",
      "2_clubs", "2_diamonds", "3_spades", "A_diamonds", "2_hearts", "3_hearts", "10_hearts", "4_diamonds",
      "6_spades", "8_clubs", "2_spades", "7_clubs", "4_hearts", "9_diamonds", "5_diamonds", "6_hearts">>

\* solo, the Jack of Clubs first: the whole deck in the order it is drawn
EmptyTop ==
    <<"A_clubs", "4_spades", "4_clubs", "9_clubs", "8_spades", "10_hearts", "9_hearts", "8_hearts",
      "10_spades", "10_clubs", "10_diamonds", "9_spades", "9_diamonds", "7_spades", "7_clubs", "7_hearts",
      "A_diamonds", "5_diamonds", "6_diamonds", "8_diamonds", "6_hearts", "6_clubs", "6_spades", "8_clubs",
      "5_hearts", "4_hearts",
      "4_diamonds", "5_clubs", "3_hearts", "3_diamonds", "3_clubs", "7_diamonds",
      "2_clubs", "2_diamonds", "3_spades", "2_hearts", "2_spades", "A_hearts", "A_spades", "5_spades">>

\* player 0 overkills the Jack of Hearts, player 1 kills the Jack of Diamonds
\* exactly, player 0's hearts play moves the discard pile under the tavern
KillsWalk ==
    <<Call("playCards", 0, <<"A_spades", "10_clubs">>),
      Call("playCards", 1, <<"A_clubs", "9_spades">>),
      Call("playCards", 0, <<"5_hearts">>)>>

\* player 0 plays the Ace of Spades and pays the attack; player 1 is to play
AceWalk ==
    <<Call("playCards", 0, <<"A_spades">>),
      Call("discardCards", 0, <<"9_diamonds">>)>>

\* solo until the tavern is empty: both jokers, then four diamond plays, each
\* attack paid in one discard; the last play kills the Jack of Clubs exactly
DrainWalk ==
    <<Call("playJoker", 0, <<>>),
      Call("playJoker", 0, <<>>),
      Call("playCards", 0, <<"5_diamonds">>),
      Call("discardCards", 0, <<"6_hearts", "6_clubs", "6_spades", "9_diamonds", "8_clubs", "5_hearts">>),
      Call("playCards", 0, <<"6_diamonds">>),
      Call("discardCards", 0, <<"4_hearts", "4_diamonds", "5_clubs", "3_hearts", "3_diamonds", "3_clubs">>),
      Call("playCards", 0, <<"7_diamonds">>),
      Call("discardCards", 0, <<"3_spades", "2_hearts", "2_clubs", "2_spades", "A_hearts", "A_spades">>),
      Call("playCards", 0, <<"2_diamonds">>)>>

\* the kills above and the attack paid with two 5s: player 0 is left with two
\* cards, player 1 with five, and player 1 plays the 7 of Diamonds; attacked,
\* player 1 discards the Joker
CrowdWalk ==
    KillsWalk \o
    <<Call("discardCards", 0, <<"5_diamonds", "5_spades">>),
      Call("playCards", 1, <<"7_diamonds">>),
      Call("discardCards", 1, <<"Joker_1">>)>>

\* solo until hand and tavern are empty in the play phase: both jokers, three
\* diamond plays that draw the tavern out and kill the Jack of Clubs exactly,
\* a play against the Jack of Hearts and the whole hand discarded for its attack
EmptyWalk ==
    <<Call("playJoker", 0, <<>>),
      Call("playJoker", 0, <<>>),
      Call("playCards", 0, <<"A_diamonds", "5_diamonds">>),
      Call("discardCards", 0, <<"6_hearts", "6_clubs", "6_spades", "8_clubs", "5_hearts", "4_hearts">>),
      Call("playCards", 0, <<"6_diamonds">>),
      Call("discardCards", 0, <<"4_diamonds", "5_clubs", "3_hearts", "3_diamonds", "3_clubs", "7_diamonds">>),
      Call("playCards", 0, <<"8_diamonds">>),
      Call("playCards", 0, <<"2_clubs">>),
      Call("discardCards", 0, <<"2_diamonds", "3_spades", "2_hearts", "2_spades", "A_hearts", "A_spades", "5_spades">>)>>

\* the same, and then the Ace of Diamonds against the Jack of Hearts: the
\* attack of 10 meets a hand that holds the 5 of Spades alone
DoomWalk == Append(DrainWalk, Call("playCards", 0, <<"A_diamonds">>))

\* a solo match won: twelve enemies defeated in 44 calls, some killed exactly
\* and taken back into the hand (the Jack of Hearts, the Jack of Spades and the
\* Queen of Hearts pay attacks or deal damage, the King of Clubs kills the
\* King of Spades), both jokers used, the last King overkilled
VictoryWalk ==
    <<Call("playCards", 0, <<"5_spades", "5_hearts">>),
      Call("playCards", 0, <<"4_clubs", "A_hearts">>),
      Call("playCards", 0, <<"9_hearts", "A_spades">>),
      Call("playCards", 0, <<"6_diamonds">>),
      Call("playCards", 0, <<"8_diamonds">>),
      Call("playCards", 0, <<"10_clubs">>),
      Call("playJoker", 0, <<>>),
      Call("playCards", 0, <<"A_clubs", "9_clubs">>),
      Call("playCards", 0, <<"10_diamonds">>),
      Call("discardCards", 0, <<"4_spades", "7_diamonds", "2_clubs", "2_diamonds">>),
      Call("playCards", 0, <<"3_diamonds", "3_spades">>),
      Call("discardCards", 0, <<"5_clubs", "2_hearts", "3_hearts">>),
      Call("playCards", 0, <<"A_diamonds", "10_hearts">>),
      Call("discardCards", 0, <<"2_spades", "7_clubs">>),
      Call("playCards", 0, <<"4_diamonds", "4_hearts">>),
      Call("playCards", 0, <<"8_clubs", "A_hearts">>),
      Call("discardCards", 0, <<"6_spades", "J_hearts">>),
      Call("playCards", 0, <<"6_clubs">>),
      Call("playCards", 0, <<"9_diamonds">>),
      Call("discardCards", 0, <<"6_hearts", "4_clubs", "5_hearts">>),
      Call("playCards", 0, <<"5_diamonds", "5_clubs">>),
      Call("discardCards", 0, <<"5_spades", "3_spades", "7_diamonds">>),
      Call("playCards", 0, <<"3_hearts", "3_diamonds">>),
      Call("playCards", 0, <<"2_hearts", "2_diamonds", "2_clubs", "2_spades">>),
      Call("discardCards", 0, <<"J_spades">>),
      Call("playCards", 0, <<"7_clubs">>),
      Call("playCards", 0, <<"10_diamonds">>),
      Call("discardCards", 0, <<"4_spades", "9_clubs", "7_diamonds">>),
      Call("playCards", 0, <<"A_diamonds", "A_clubs", "10_spades">>),
      Call("discardCards", 0, <<"5_diamonds", "5_hearts">>),
      Call("playCards", 0, <<"3_clubs", "3_spades", "3_diamonds">>),
      Call("playCards", 0, <<"9_diamonds">>),
      Call("playCards", 0, <<"5_spades", "5_clubs">>),
      Call("discardCards", 0, <<"10_hearts">>),
      Call("playCards", 0, <<"Q_hearts">>),
      Call("discardCards", 0, <<"4_clubs", "6_clubs">>),
      Call("playCards", 0, <<"6_hearts">>),
      Call("playJoker", 0, <<>>),
      Call("playCards", 0, <<"K_clubs">>),
      Call("playCards", 0, <<"5_clubs", "5_spades">>),
      Call("discardCards", 0, <<"J_hearts">>),
      Call("playCards", 0, <<"3_diamonds", "3_spades">>),
      Call("discardCards", 0, <<"3_clubs", "A_diamonds">>),
      Call("playCards", 0, <<"10_hearts", "A_clubs">>)>>

\* two players, the Jack of Hearts first: player 1 is dealt both jokers and
\* five cards worth 11
JokersTop ==
    <<"2_clubs", "2_spades", "10_diamonds", "3_clubs", "10_hearts", "4_clubs", "4_hearts",
      "A_hearts", "2_hearts", "2_diamonds", "3_diamonds", "3_spades", "Joker_1", "Joker_2">>

\* each player plays and pays the attack, player 0 twice: player 1 is to
\* play with the two jokers alone in hand
StrandWalk ==
    <<Call("playCards", 0, <<"2_clubs", "2_spades">>),
      Call("discardCards", 0, <<"10_diamonds">>),
      Call("playCards", 1, <<"A_hearts">>),
      Call("discardCards", 1, <<"2_hearts", "2_diamonds", "3_diamonds", "3_spades">>),
      Call("playCards", 0, <<"3_clubs">>),
      Call("discardCards", 0, <<"10_hearts">>)>>

\* two players, the Jack of Hearts first: player 0 is dealt the Aces of
\* Clubs and Diamonds
CompanionTop ==
    <<"A_clubs", "A_diamonds", "10_hearts", "6_clubs", "6_spades", "7_hearts", "8_hearts",
      "6_hearts", "7_clubs", "7_spades", "8_clubs", "8_spades", "9_hearts", "9_clubs">>

\* player 0 plays the two Aces together (a club doubling, a diamond drawing
\* for the one hand with room) and pays the attack
CompanionWalk ==
    <<Call("playCards", 0, <<"A_clubs", "A_diamonds">>),
      Call("discardCards", 0, <<"10_hearts">>)>>

\* after the two Aces both players pay small attacks behind a shield of 7
\* until player 0 holds the 7 of Hearts alone, and plays it: the Jack of
\* Hearts survives and attacks a player without cards
StuckWalk ==
    CompanionWalk \o
    <<Call("playCards", 1, <<"7_spades">>),
      Call("discardCards", 1, <<"7_clubs">>),
      Call("yieldTurn", 0, <<"6_clubs">>),
      Call("discardCards", 0, <<"6_spades", "8_hearts", "Joker_2">>),
      Call("yieldTurn", 1, <<"8_clubs">>),
      Call("discardCards", 1, <<"8_spades">>),
      Call("playCards", 0, <<"7_hearts">>)>>

Deals ==
    <<Deal(2, HeartsTop, <<HDCS, HDCS, HDCS>>, <<>>),
      Deal(2, HeartsTop, <<HDCS, HDCS, HDCS>>, KillsWalk),
      Deal(2, HeartsTop, <<HDCS, HDCS, HDCS>>, AceWalk),
      Deal(1, ClubsTop, <<CHDS, CHDS, CHDS>>, <<>>),
      Deal(1, ClubsTop, <<CHDS, CHDS, CHDS>>, DrainWalk),
      Deal(1, ClubsTop, <<CHDS, CHDS, CHDS>>, DoomWalk),
      Deal(1, VictoryTop, <<HCDS, CHSD, CDSH>>, VictoryWalk),
      Deal(3, DiamondsTop, <<DHCS, DHCS, DHCS>>, <<>>),
      Deal(4, SpadesTop, <<SHCD, SHCD, SHCD>>, <<>>),
      Deal(2, HeartsTop, <<HDCS, HDCS, HDCS>>, CrowdWalk),
      Deal(1, EmptyTop, <<CHDS, CHDS, CHDS>>, EmptyWalk),
      Deal(2, JokersTop, <<HDCS, HDCS, HDCS>>, StrandWalk),
      Deal(2, CompanionTop, <<HDCS, HDCS, HDCS>>, CompanionWalk),
      Deal(2, CompanionTop, <<HDCS, HDCS, HDCS>>, StuckWalk)>>

\* the state reset() leaves for a deal
dealt(d) == reset(Deals[d].n, shuffledDeck(Deals[d].n, Deals[d].top), createEnemyDeck(Deals[d].order))

\* the call an operation makes on the game
Apply(s, call) ==
    CASE call.op = "playCards" -> playCards(s, call.playerIndex, call.cardIds)
      [] call.op = "discardCards" -> discardCards(s, call.playerIndex, call.cardIds)
      [] call.op = "yieldTurn" ->
            yieldTurn(s, call.playerIndex, IF call.cardIds = <<>> THEN NoId ELSE call.cardIds[1])
      [] call.op = "playJoker" -> playJoker(s, call.playerIndex)

\* player indexes a caller passes: the current player's and that of the next
\* seat (in a solo game index 1, which is no player)
PlayerIndexes(s) == {s.currentPlayer, (s.currentPlayer + 1) % Max(s.playerCount, 2)}

\* card ids a caller passes
IdPool(s) ==
    LET hand == s.hands[s.currentPlayer]
    IN  {hand[i].id : i \in 1..Min(MaxPick, Len(hand))} \cup {UnknownId}

IdLists(s) == UNION {[1..k -> IdPool(s)] : k \in 0..MaxIds}

\* the next call of the walkthrough, if it is a call of `op`
ScriptNext(op) ==
    LET script == Deals[deal].script
    IN  IF pos < Len(script) /\ script[pos + 1].op = op
        THEN {script[pos + 1]} ELSE {}

\* the calls of `op` a caller makes; out of turn with at most one id (the
\* engine turns the call away before it reads the list)
Calls(s, op) ==
    IF op = "yieldTurn"
    THEN {Call(op, p, ids) : p \in PlayerIndexes(s), ids \in {<<>>} \cup {<<id>> : id \in IdPool(s)}}
    ELSE IF op = "playJoker"
    THEN {Call(op, p, <<>>) : p \in PlayerIndexes(s)}
    ELSE {Call(op, s.currentPlayer, ids) : ids \in IdLists(s)}
         \cup {Call(op, p, ids) : p \in PlayerIndexes(s), ids \in {l \in IdLists(s) : Len(l) <= 1}}

Install(s) ==
    /\ playerCount' = s.playerCount
    /\ tavern' = s.tavern
    /\ castle' = s.castle
    /\ discard' = s.discard
    /\ hands' = s.hands
    /\ currentPlayer' = s.currentPlayer
    /\ phase' = s.phase
    /\ currentEnemy' = s.currentEnemy
    /\ currentEnemyHP' = s.currentEnemyHP
    /\ currentEnemyMaxHP' = s.currentEnemyMaxHP
    /\ currentEnemyAttack' = s.currentEnemyAttack
    /\ shieldAmount' = s.shieldAmount
    /\ discardNeeded' = s.discardNeeded
    /\ discardedSoFar' = s.discardedSoFar
    /\ enemiesDefeated' = s.enemiesDefeated
    /\ jokersAvailable' = s.jokersAvailable
    /\ jokersUsed' = s.jokersUsed

\* one call: the game becomes what the operation leaves; an accepted call is
\* recorded, and counted unless it is the next call of the walkthrough
Step(call) ==
    LET out == Apply(State, call)
        script == Deals[deal].script
        onScript == pos < Len(script) /\ script[pos + 1] = call
        accepted == out.result.success
    IN  /\ onScript \/ (pos = Len(script) /\ ops < MaxOps) \/ ~accepted
        /\ Install(out.state)
        /\ removed' = removed \cup out.dropped
        /\ last' = IF accepted THEN [call |-> call, result |-> out.result] ELSE last
        /\ pos' = IF accepted /\ onScript THEN pos + 1 ELSE pos
        /\ ops' = IF accepted /\ ~onScript THEN ops + 1 ELSE ops
        /\ deal' = deal

Init ==
    \E d \in DOMAIN Deals :
        /\ playerCount = dealt(d).playerCount
        /\ tavern = dealt(d).tavern
        /\ castle = dealt(d).castle
        /\ discard = dealt(d).discard
        /\ hands = dealt(d).hands
        /\ currentPlayer = dealt(d).currentPlayer
        /\ phase = dealt(d).phase
        /\ currentEnemy = dealt(d).currentEnemy
        /\ currentEnemyHP = dealt(d).currentEnemyHP
        /\ currentEnemyMaxHP = dealt(d).currentEnemyMaxHP
        /\ currentEnemyAttack = dealt(d).currentEnemyAttack
        /\ shieldAmount = dealt(d).shieldAmount
        /\ discardNeeded = dealt(d).discardNeeded
        /\ discardedSoFar = dealt(d).discardedSoFar
        /\ enemiesDefeated = dealt(d).enemiesDefeated
        /\ jokersAvailable = dealt(d).jokersAvailable
        /\ jokersUsed = dealt(d).jokersUsed
        /\ removed = {}
        /\ last = [call |-> Call("reset", 0, <<>>), result |-> Result(TRUE, "", <<>>, "reset")]
        /\ deal = d
        /\ pos = 0
        /\ ops = 0

PlayCards == \E call \in Calls(State, "playCards") \cup ScriptNext("playCards") : Step(call)

DiscardCards == \E call \in Calls(State, "discardCards") \cup ScriptNext("discardCards") : Step(call)

YieldTurn == \E call \in Calls(State, "yieldTurn") \cup ScriptNext("yieldTurn") : Step(call)

PlayJoker == \E call \in Calls(State, "playJoker") \cup ScriptNext("playJoker") : Step(call)

\* runAITurn() in the play phase: the partner, player 1 of a two-player
\* game, makes the call it decided on
RunAITurn ==
    /\ playerCount = 2
    /\ phase = "play"
    /\ currentPlayer = 1
    /\ LET decision == decidePlay(State, 1)
       IN  IF decision.type = "play"
           THEN Step(Call("playCards", 1, decision.cardIds))
           ELSE Step(Call("yieldTurn", 1, decision.cardIds))

\* runAIDiscard(): the partner discards what it decided on; with nothing to
\* discard the caller itself sets the phase to gameover
RunAIDiscard ==
    /\ playerCount = 2
    /\ phase = "discard"
    /\ currentPlayer = 1
    /\ LET discardIds == decideDiscard(State, 1)
       IN  IF Len(discardIds) > 0
           THEN Step(Call("discardCards", 1, discardIds))
           ELSE /\ pos = Len(Deals[deal].script) /\ ops < MaxOps
                /\ Install([State EXCEPT !.phase = "gameover"])
                /\ ops' = ops + 1
                /\ UNCHANGED <<removed, last, deal, pos>>

\* reset(): a new match from a fresh deal
Reset ==
    \E d \in DOMAIN Deals :
        /\ Install(dealt(d))
        /\ removed' = {}
        /\ last' = [call |-> Call("reset", 0, <<>>), result |-> Result(TRUE, "", <<>>, "reset")]
        /\ deal' = d
        /\ pos' = 0
        /\ ops' = 0

Next == PlayCards \/ DiscardCards \/ YieldTurn \/ PlayJoker \/ RunAITurn \/ RunAIDiscard \/ Reset

Spec == Init /\ [][Next]_vars

----------------------------------------------------------------------------
(* The partner's decisions on their own: the functions of RegicideAI are   *)
(* applied to a game in which player 1 holds a hand drawn from a bounded   *)
(* set of cards and is to play, or to pay an attack of the Jack of Hearts  *)
(* that the shield has left at a drawn amount.                             *)

\* most cards in the partner's hand
MaxHeld == 5

\* the cards the partner's hand is drawn from, in the order they are held
AiCards ==
    <<Card("A", "hearts"), Card("2", "hearts"), Card("9", "spades"), Card("A", "diamonds"),
      Joker(1), Card("5", "clubs"), Card("2", "diamonds"), Card("A", "clubs"),
      Card("9", "diamonds"), Card("A", "spades"), Card("5", "spades"), Card("3", "diamonds")>>

AiHands ==
    {[i \in 1..Cardinality(picked) |->
         AiCards[CHOOSE k \in picked : Cardinality({j \in picked : j < k}) = i - 1]] :
       picked \in {ps \in SUBSET (1..Len(AiCards)) : Cardinality(ps) <= MaxHeld}}

\* what is left to pay of the Jack's attack of 10 (0: the partner is to play)
AiNeeds == {0, 1, 4, 10}

\* the game of deal 12 with `hand` in player 1's hand (the other cards dealt
\* to player 1 are in the tavern) and player 1 to move
AiGame(hand, needed) ==
    LET base == dealt(12)
        Elsewhere(c) == ~Includes(hand, c)
    IN  [base EXCEPT !.hands = [base.hands EXCEPT ![1] = hand],
                     !.tavern = SelectSeq(base.tavern \o base.hands[1], Elsewhere),
                     !.currentPlayer = 1,
                     !.phase = IF needed = 0 THEN "play" ELSE "discard",
                     !.shieldAmount = IF needed = 0 THEN 0 ELSE base.currentEnemyAttack - needed,
                     !.discardNeeded = needed]

AiInit ==
    \E hand \in AiHands, needed \in AiNeeds :
        /\ playerCount = AiGame(hand, needed).playerCount
        /\ tavern = AiGame(hand, needed).tavern
        /\ castle = AiGame(hand, needed).castle
        /\ discard = AiGame(hand, needed).discard
        /\ hands = AiGame(hand, needed).hands
        /\ currentPlayer = AiGame(hand, needed).currentPlayer
        /\ phase = AiGame(hand, needed).phase
        /\ currentEnemy = AiGame(hand, needed).currentEnemy
        /\ currentEnemyHP = AiGame(hand, needed).currentEnemyHP
        /\ currentEnemyMaxHP = AiGame(hand, needed).currentEnemyMaxHP
        /\ currentEnemyAttack = AiGame(hand, needed).currentEnemyAttack
        /\ shieldAmount = AiGame(hand, needed).shieldAmount
        /\ discardNeeded = AiGame(hand, needed).discardNeeded
        /\ discardedSoFar = AiGame(hand, needed).discardedSoFar
        /\ enemiesDefeated = AiGame(hand, needed).enemiesDefeated
        /\ jokersAvailable = AiGame(hand, needed).jokersAvailable
        /\ jokersUsed = AiGame(hand, needed).jokersUsed
        /\ removed = {}
        /\ last = [call |-> Call("reset", 0, <<>>), result |-> Result(TRUE, "", <<>>, "reset")]
        /\ deal = 1
        /\ pos = 0
        /\ ops = 0

AiNext == RunAITurn \/ RunAIDiscard

AiSpec == AiInit /\ [][AiNext]_vars

----------------------------------------------------------------------------
(* isValidCombo on its own: the callers hand it a selection of cards (the  *)
(* cards picked in the hand, the candidate plays of the AI, the cards      *)
(* playCards resolved) and read the verdict.                               *)

\* the most cards a selection holds
MaxSel == 5

\* the cards a selection is made of: aces, every 2 and every 3, a Jack, a
\* Queen, a King and a Joker; the 2 of hearts is there twice, as in the list
\* playCards resolves from an id named twice
ComboCards ==
    <<Card("A", "hearts"), Card("A", "spades"),
      Card("2", "hearts"), Card("2", "hearts"), Card("2", "diamonds"),
      Card("2", "clubs"), Card("2", "spades"),
      Card("3", "hearts"), Card("3", "diamonds"), Card("3", "clubs"), Card("3", "spades"),
      Card("J", "clubs"), Card("Q", "hearts"), Card("K", "diamonds"), Joker(1)>>

\* the selections of at most MaxSel cards, each in the order of ComboCards
Selections ==
    {[i \in 1..Cardinality(picked) |->
         ComboCards[CHOOSE k \in picked : Cardinality({j \in picked : j < k}) = i - 1]] :
       picked \in {ps \in SUBSET (1..Len(ComboCards)) : Cardinality(ps) <= MaxSel}}

\* a selection is made on a freshly dealt solo game; isValidCombo is yet to be called
ComboInit ==
    \E selection \in Selections :
        /\ playerCount = dealt(4).playerCount
        /\ tavern = dealt(4).tavern
        /\ castle = dealt(4).castle
        /\ discard = dealt(4).discard
        /\ hands = dealt(4).hands
        /\ currentPlayer = dealt(4).currentPlayer
        /\ phase = dealt(4).phase
        /\ currentEnemy = dealt(4).currentEnemy
        /\ currentEnemyHP = dealt(4).currentEnemyHP
        /\ currentEnemyMaxHP = dealt(4).currentEnemyMaxHP
        /\ currentEnemyAttack = dealt(4).currentEnemyAttack
        /\ shieldAmount = dealt(4).shieldAmount
        /\ discardNeeded = dealt(4).discardNeeded
        /\ discardedSoFar = dealt(4).discardedSoFar
        /\ enemiesDefeated = dealt(4).enemiesDefeated
        /\ jokersAvailable = dealt(4).jokersAvailable
        /\ jokersUsed = dealt(4).jokersUsed
        /\ removed = {}
        /\ last = [call |-> Call("isValidCombo", 0, selection),
                   result |-> Result(FALSE, "", <<>>, "pending")]
        /\ deal = 4
        /\ pos = 0
        /\ ops = 0

\* isValidCombo(selected): the verdict is kept with the call; the game is not touched
IsValidCombo ==
    /\ pos = 0
    /\ last' = [call |-> last.call,
                result |-> Result(isValidCombo(last.call.cardIds), "", <<>>, "verdict")]
    /\ pos' = 1
    /\ UNCHANGED <<gameVars, removed, deal, ops>>

ComboNext == IsValidCombo

ComboSpec == ComboInit /\ [][ComboNext]_vars

\* isValidCombo has returned: the selection it was given and its verdict
Called == pos = 1 /\ last.call.op = "isValidCombo"

Selected == last.call.cardIds

Verdict == last.result.success

\* every reordering of a selection
Reorderings(cards) ==
    {[i \in 1..Len(cards) |-> cards[p[i]]] : p \in Permutations(1..Len(cards))}

----------------------------------------------------------------------------
(* What the claims speak of.                                               *)

Ops == {"playCards", "discardCards", "yieldTurn", "playJoker"}

\* every call the callers can make in the current state
AllCalls == UNION {Calls(State, op) : op \in Ops}

\* the calls of `op` made in turn (by the current player)
InTurn(op) == {call \in Calls(State, op) : call.playerIndex = currentPlayer}

Terminal == {"gameover", "victory"}

\* the call is rejected and the game is left as it was
Rejected(s, call) ==
    LET out == Apply(s, call)
    IN  ~out.result.success /\ out.state = s /\ out.dropped = {}

handIds(s, p) == {s.hands[p][i].id : i \in 1..Len(s.hands[p])}

\* the enemy to fight: none once the last enemy is defeated
activeEnemy(s) == IF s.phase = "victory" THEN <<>> ELSE <<s.currentEnemy>>

\* how many times card c lies in the piles, the hands, the enemy slot or out of the game
Occurrences(c) ==
    Count(tavern, c) + Count(castle, c) + Count(discard, c) + Count(activeEnemy(State), c)
    + SumSeq([k \in 1..playerCount |-> Count(hands[k - 1], c)])
    + (IF c \in removed THEN 1 ELSE 0)

\* card c lies in some pile or hand
InPlay(s, c) ==
    \/ Includes(s.tavern, c) \/ Includes(s.castle, c) \/ Includes(s.discard, c)
    \/ \E p \in DOMAIN s.hands : Includes(s.hands[p], c)

\* the events of a result that have the given type and suit
HasEvent(result, type, suit) ==
    \E i \in 1..Len(result.events) : result.events[i].type = type /\ result.events[i].suit = suit

\* b is a with nothing but cards added in front / at the end
IsSuffix(a, b) == Len(a) <= Len(b) /\ SubSeq(b, Len(b) - Len(a) + 1, Len(b)) = a

IsPrefix(a, b) == Len(a) <= Len(b) /\ SubSeq(b, 1, Len(a)) = a

----------------------------------------------------------------------------
(* C1: card conservation.  Every card of the deck and every enemy lies     *)
(* exactly once in tavern, castle, enemy slot, discard, hands or the       *)
(* removed set.                                                            *)
C1_Conservation == \A c \in AllCards(playerCount) : Occurrences(c) = 1

(* C2: phase and turn guard.  playCards, yieldTurn and playJoker outside   *)
(* the play phase, discardCards outside the discard phase, and any of the  *)
(* four for a player other than currentPlayer are rejected and change      *)
(* nothing.                                                                *)
C2_PhaseTurnGuard ==
    \A call \in AllCalls :
        LET outOfTurn == call.playerIndex # currentPlayer
            outOfPhase == IF call.op = "discardCards" THEN phase # "discard" ELSE phase # "play"
        IN  (outOfTurn \/ outOfPhase) => Rejected(State, call)

\* a discard phase entered by a play; out-of-phase and out-of-turn calls are there to reject
C2_Witness ==
    /\ phase = "discard"
    /\ last.call.op = "playCards"
    /\ \E call \in AllCalls : call.op = "yieldTurn" /\ call.playerIndex = currentPlayer
    /\ \E call \in AllCalls : call.op = "discardCards" /\ call.playerIndex # currentPlayer

\* a step from a terminal phase is a reset or leaves the game as it is
TerminalStays ==
    phase \in Terminal => (last'.call.op = "reset" \/ UNCHANGED <<gameVars, removed, last>>)

(* C3: terminal phases are absorbing.  In gameover or victory every call   *)
(* of the four operations is rejected and nothing but reset changes the    *)
(* game.                                                                   *)
C3_TerminalAbsorbing ==
    /\ [](phase \in Terminal => \A call \in AllCalls : Rejected(State, call))
    /\ [][TerminalStays]_vars

\* the match is won by a play, and there are calls to make on it
C3_Witness ==
    /\ phase = "victory"
    /\ enemiesDefeated = 12
    /\ last.call.op = "playCards"
    /\ \E call \in AllCalls : call.playerIndex = currentPlayer

(* C4: playCards rejection.  In turn and in the play phase, playCards is   *)
(* rejected (nothing changes) when some id names no card of the hand or    *)
(* isValidCombo rejects the named cards, and is accepted otherwise.        *)
C4_PlayRejection ==
    phase = "play" =>
        \A call \in InTurn("playCards") :
            LET hand == hands[currentPlayer]
                ids == call.cardIds
                missing == \E i \in 1..Len(ids) : ids[i] \notin handIds(State, currentPlayer)
                named == [i \in 1..Len(ids) |-> CHOOSE c \in ToSet(hand) : c.id = ids[i]]
            IN  IF missing \/ ~isValidCombo(named)
                THEN Rejected(State, call)
                ELSE Apply(State, call).result.success

\* a play phase in which a list with an unknown id, an illegal pair and a legal play are at hand
C4_Witness ==
    /\ phase = "play"
    /\ last.call.op = "playCards"
    /\ \E call \in InTurn("playCards") : UnknownId \in ToSet(call.cardIds)
    /\ \E call \in InTurn("playCards") :
          /\ Len(call.cardIds) = 2
          /\ ToSet(call.cardIds) \subseteq handIds(State, currentPlayer)
          /\ ~Apply(State, call).result.success
    /\ \E call \in InTurn("playCards") : Apply(State, call).result.success

(* C5: discardCards with an unknown card id.  In turn and in the discard   *)
(* phase, a list holding an id that names no card of the hand is rejected  *)
(* and moves no card.                                                      *)
C5_DiscardUnknownRejected ==
    phase = "discard" =>
        \A call \in InTurn("discardCards") :
            (\E i \in 1..Len(call.cardIds) : call.cardIds[i] \notin handIds(State, currentPlayer))
            => Rejected(State, call)

(* C6: yieldTurn with an unknown card id.  In turn and in the play phase,  *)
(* a yield naming a card that is not in the hand is rejected and changes   *)
(* nothing.                                                                *)
C6_YieldUnknownRejected ==
    phase = "play" =>
        \A call \in InTurn("yieldTurn") :
            (call.cardIds # <<>> /\ call.cardIds[1] \notin handIds(State, currentPlayer))
            => Rejected(State, call)

\* the cards a list of ids names in the hand of the current player
Named(ids) ==
    [i \in 1..Len(ids) |-> CHOOSE c \in ToSet(hands[currentPlayer]) : c.id = ids[i]]

\* the plays the engine accepts in the current state
AcceptedPlays ==
    IF phase = "play"
    THEN {call \in InTurn("playCards") : Apply(State, call).result.success}
    ELSE {}

\* the damage the rules apply to HP for a selection: the summed card values,
\* doubled by a club unless the enemy is a club
AppliedDamage(cards) ==
    LET base == SumSeq([i \in 1..Len(cards) |-> cardValue(cards[i])])
    IN  IF (\E i \in 1..Len(cards) : cards[i].suit = "clubs") /\ currentEnemy.suit # "clubs"
        THEN 2 * base ELSE base

(* C7: suit immunity.  A combo with a card of the enemy's suit yields an   *)
(* immunity event for that suit and the suit's power does nothing: no      *)
(* doubling against clubs, no draw against diamonds, no shield against     *)
(* spades, nothing moved from discard to tavern against hearts; the        *)
(* powers of the other suits of the combo fire.                            *)
C7_SuitImmunity ==
    \A call \in AcceptedPlays :
        LET cards == Named(call.cardIds)
            base == SumSeq([i \in 1..Len(cards) |-> cardValue(cards[i])])
            suits == {cards[i].suit : i \in 1..Len(cards)}
            enemy == currentEnemy.suit
            out == Apply(State, call)
            after == out.state
            defeated == out.result.flag = "defeated"
            applied == IF "clubs" \in suits /\ enemy # "clubs" THEN 2 * base ELSE base
        IN  /\ enemy \in suits => HasEvent(out.result, "immunity", enemy)
            /\ \A s \in suits : s # enemy => ~HasEvent(out.result, "immunity", s)
            \* clubs
            /\ \E i \in 1..Len(out.result.events) :
                  out.result.events[i] = Event("damage", "", applied)
            /\ defeated <=> currentEnemyHP - applied <= 0
            /\ ~defeated => after.currentEnemyHP = currentEnemyHP - applied
            \* diamonds
            /\ ("diamonds" \in suits /\ enemy = "diamonds") =>
                  \A p \in DOMAIN hands : ToSet(after.hands[p]) \subseteq ToSet(hands[p])
            /\ ("diamonds" \in suits /\ enemy # "diamonds" /\ Len(tavern) > 0) =>
                  /\ Includes(after.hands[currentPlayer], Top(tavern))
                  /\ HasEvent(out.result, "diamonds", "diamonds")
            \* spades
            /\ ("spades" \in suits /\ enemy = "spades") => after.shieldAmount = shieldAmount
            /\ ("spades" \in suits /\ enemy # "spades") =>
                  /\ HasEvent(out.result, "spades", "spades")
                  /\ ~defeated => after.shieldAmount = shieldAmount + base
            \* hearts
            /\ ("hearts" \in suits /\ enemy = "hearts") =>
                  /\ IsPrefix(discard, after.discard)
                  /\ IsPrefix(after.tavern, tavern)
            /\ ("hearts" \in suits /\ enemy # "hearts" /\ Len(discard) > 0) =>
                  /\ HasEvent(out.result, "hearts", "hearts")
                  /\ LET k == Min(base, Len(discard))
                     IN  IsPrefix(SubSeq(discard, Len(discard) - k + 1, Len(discard)), after.tavern)

\* a play of two suits, one of them the enemy's, made with cards in the discard
\* pile: the enemy's suit met immunity, the other suit's power fired
C7_Witness ==
    /\ last.call.op = "playCards"
    /\ \E s \in {"clubs", "diamonds", "spades", "hearts"} :
          HasEvent(last.result, "immunity", s)
    /\ \E s \in {"clubs", "diamonds", "spades", "hearts"} :
          HasEvent(last.result, s, s)

(* C8: exact kill versus overkill.  A play that brings HP to exactly 0     *)
(* puts the enemy card on the discard pile (from where a hearts play can   *)
(* move it to the tavern); a play that brings HP below 0 leaves the enemy  *)
(* card in no pile, and it never shows up in a pile or hand again.         *)
C8_ExactKillOverkill ==
    /\ \A c \in removed : ~InPlay(State, c)
    /\ \A call \in AcceptedPlays :
          LET hp == currentEnemyHP - AppliedDamage(Named(call.cardIds))
              out == Apply(State, call)
          IN  /\ hp = 0 => (Top(out.state.discard) = currentEnemy /\ out.dropped = {})
              /\ hp < 0 => (~InPlay(out.state, currentEnemy) /\ out.dropped = {currentEnemy})
              /\ hp > 0 => (~InPlay(out.state, currentEnemy) /\ out.dropped = {})

\* one enemy was overkilled and is gone; another, killed exactly, lies in the
\* tavern after a hearts play
C8_Witness ==
    /\ removed # {}
    /\ \E i \in 1..Len(tavern) : IsFace(tavern[i])
    /\ last.call.op = "playCards"
    /\ HasEvent(last.result, "hearts", "hearts")

\* an attack is to be paid that the cards left cannot pay: the tavern and the
\* other hands are empty, the hand and what was discarded are worth less than it
Doomed ==
    /\ phase = "discard"
    /\ tavern = <<>>
    /\ \A p \in DOMAIN hands : p # currentPlayer => hands[p] = <<>>
    /\ handValue(discardedSoFar) + handValue(hands[currentPlayer]) < discardNeeded

(* C9: discard-to-survive termination.  After an attack that the hand      *)
(* cannot pay (hand worth less than discardNeeded, tavern and other hands  *)
(* empty) no call brings the phase back to play, and the phase is gameover *)
(* once the hand is discarded.                                             *)
C9_DoomedEndsInGameover ==
    Doomed =>
        \A call \in AllCalls :
            LET out == Apply(State, call)
            IN  /\ out.state.phase # "play"
                /\ (out.result.success /\ out.state.hands[currentPlayer] = <<>>)
                      => out.state.phase = "gameover"

(* C10: end-to-end scenario.  Two players, the Jack of Hearts freshly      *)
(* revealed (HP 20, attack 10), player 0 plays the Ace of Spades alone: no *)
(* immunity event, shield 1, effective attack 9, HP 19, phase discard with *)
(* discardNeeded 9, currentPlayer still 0.                                 *)
C10_AceOfSpadesScenario ==
    (/\ playerCount = 2
     /\ phase = "play"
     /\ currentPlayer = 0
     /\ currentEnemy = Card("J", "hearts")
     /\ currentEnemyHP = 20
     /\ currentEnemyAttack = 10
     /\ shieldAmount = 0
     /\ "A_spades" \in handIds(State, 0))
    => LET out == playCards(State, 0, <<"A_spades">>)
       IN  /\ out.result.success
           /\ \A i \in 1..Len(out.result.events) : out.result.events[i].type # "immunity"
           /\ out.state.shieldAmount = 1
           /\ Max(0, out.state.currentEnemyAttack - out.state.shieldAmount) = 9
           /\ out.state.currentEnemyHP = 19
           /\ out.state.phase = "discard"
           /\ out.state.discardNeeded = 9
           /\ out.state.currentPlayer = 0

\* the state the play leaves
C10_Witness ==
    /\ last.call = Call("playCards", 0, <<"A_spades">>)
    /\ playerCount = 2
    /\ currentEnemy = Card("J", "hearts")
    /\ currentEnemyHP = 19
    /\ shieldAmount = 1
    /\ phase = "discard"
    /\ discardNeeded = 9
    /\ currentPlayer = 0
    /\ Len(discard) = 1

(* C11: combo legality is symmetric.  Every reordering of a selection gets *)
(* the verdict the selection got, and a selection holding a Joker, a       *)
(* single Joker included, is rejected.                                     *)
C11_ComboSymmetric ==
    Called =>
        /\ \A cards \in Reorderings(Selected) : isValidCombo(cards) = Verdict
        /\ Some(Selected, IsJoker) => ~Verdict

\* a selection of an ace and a Joker, the Joker not in front, was rejected
C11_Witness ==
    /\ Called
    /\ Len(Selected) = 2
    /\ IsAce(Selected[1])
    /\ IsJoker(Selected[2])
    /\ ~Verdict

\* the rank is one of 2..10
IsNumeral(rank) == Includes(RANKS, rank) /\ rank # "A"

(* C12: same-rank combo cap.  A selection of two or more cards with no ace *)
(* is accepted exactly when all cards share one numeral rank, there are at *)
(* most 4 of them and their values sum to at most 10; four 2s are          *)
(* accepted, four 3s are rejected.                                         *)
C12_SameRankCap ==
    /\ (Called /\ Len(Selected) >= 2 /\ ~Some(Selected, IsAce)) =>
          (Verdict <=> /\ IsNumeral(Selected[1].rank)
                       /\ \A i \in 1..Len(Selected) : Selected[i].rank = Selected[1].rank
                       /\ Len(Selected) <= 4
                       /\ SumSeq([i \in 1..Len(Selected) |-> cardValue(Selected[i])]) <= 10)
    /\ isValidCombo([i \in 1..4 |-> Card("2", SUITS[i])])
    /\ ~isValidCombo([i \in 1..4 |-> Card("3", SUITS[i])])

\* five 2s, worth 10 together, were rejected
C12_Witness ==
    /\ Called
    /\ Len(Selected) = 5
    /\ \A i \in 1..Len(Selected) : Selected[i].rank = "2"
    /\ ~Verdict

\* how many cards of the selection have the rank
OfRank(cards, rank) == Cardinality({i \in 1..Len(cards) : cards[i].rank = rank})

(* C13: animal companion with a face card.  isValidCombo accepts one ace   *)
(* plus one King, and rejects two aces plus one King plus one Queen.       *)
C13_AnimalCompanionFace ==
    Called =>
        /\ (Len(Selected) = 2 /\ OfRank(Selected, "A") = 1 /\ OfRank(Selected, "K") = 1)
              => Verdict
        /\ (/\ Len(Selected) = 4 /\ OfRank(Selected, "A") = 2
            /\ OfRank(Selected, "K") = 1 /\ OfRank(Selected, "Q") = 1)
              => ~Verdict

\* the calls of `op` made in turn: those of the callers' choice and the next
\* call of the walkthrough
Due(op) == InTurn(op) \cup ScriptNext(op)

\* the calls of `op` in turn that the engine accepts in the current state
Accepted(op) == {call \in Due(op) : Apply(State, call).result.success}

\* phase, discardNeeded and currentPlayer as the rules of the enemy's attack
\* give them, from the attack, the shield, the hands and the tavern of game t
\* and the player `actor` who played or yielded
AttackRule(t, actor) ==
    LET attack == Max(0, t.currentEnemyAttack - t.shieldAmount)
    IN  IF attack = 0
        THEN [phase |-> "play", discardNeeded |-> 0,
              currentPlayer |-> (actor + 1) % t.playerCount]
        ELSE IF (\A p \in DOMAIN t.hands : t.hands[p] = <<>>) /\ t.tavern = <<>>
        THEN [phase |-> "gameover", discardNeeded |-> attack, currentPlayer |-> actor]
        ELSE [phase |-> "discard", discardNeeded |-> attack, currentPlayer |-> actor]

\* what game t shows of the three
AttackShown(t) ==
    [phase |-> t.phase, discardNeeded |-> t.discardNeeded, currentPlayer |-> t.currentPlayer]

(* C14: enemy attack resolution.  After a play the enemy survives and      *)
(* after a yield alike: with effective attack max(0, attack - shield) = 0  *)
(* the phase stays play and the turn passes to the next player; with       *)
(* effective attack > 0 the phase is discard, discardNeeded the effective  *)
(* attack, discardedSoFar empty and the player unchanged, or gameover at   *)
(* once when every hand and the tavern are empty.                          *)
C14_AttackResolution ==
    \A call \in Accepted("playCards") \cup Accepted("yieldTurn") :
        LET out == Apply(State, call)
        IN  out.result.flag # "defeated" =>
                /\ AttackShown(out.state) = AttackRule(out.state, currentPlayer)
                /\ out.state.discardedSoFar = <<>>

\* a play that emptied the last hand with the tavern empty and the attack
\* not shielded: the match is lost at once
C14_Witness ==
    /\ last.call.op = "playCards"
    /\ phase = "gameover"
    /\ tavern = <<>>
    /\ \A p \in DOMAIN hands : hands[p] = <<>>
    /\ currentEnemyAttack - shieldAmount > 0
    /\ currentEnemyHP > 0

(* C15: defeat transition.  A play that leaves the enemy's HP at 0 or      *)
(* below enters no discard phase, passes the turn to the next player and   *)
(* counts one more enemy defeated; the head of the castle becomes the      *)
(* enemy at its max HP with shield 0 in phase play, or, the castle empty,  *)
(* the phase is victory.                                                   *)
C15_DefeatTransition ==
    \A call \in Accepted("playCards") :
        LET t == Apply(State, call).state
        IN  currentEnemyHP - AppliedDamage(Named(call.cardIds)) <= 0 =>
                /\ t.phase # "discard"
                /\ t.currentPlayer = (currentPlayer + 1) % playerCount
                /\ t.enemiesDefeated = enemiesDefeated + 1
                /\ IF castle = <<>>
                   THEN t.phase = "victory"
                   ELSE /\ t.phase = "play"
                        /\ t.currentEnemy = Head(castle)
                        /\ t.castle = Tail(castle)
                        /\ t.currentEnemyHP = t.currentEnemyMaxHP
                        /\ t.currentEnemyHP =
                              (IF Head(castle).rank = "J" THEN 20
                               ELSE IF Head(castle).rank = "Q" THEN 30 ELSE 40)
                        /\ t.shieldAmount = 0

\* the last Jack fell to a play: the first Queen stands at 30 HP, no shield
C15_Witness ==
    /\ last.call.op = "playCards"
    /\ last.result.flag = "defeated"
    /\ phase = "play"
    /\ enemiesDefeated = 4
    /\ currentEnemy.rank = "Q"
    /\ currentEnemyHP = 30
    /\ shieldAmount = 0

\* the outcome the rules give a discardCards call that leaves game t: `paid`
\* is the value discarded over the calls of this attack
DiscardRule(t, paid) ==
    IF paid >= discardNeeded
    THEN /\ t.phase = "play"
         /\ t.currentPlayer = (currentPlayer + 1) % playerCount
         /\ t.discardNeeded = 0
         /\ t.discardedSoFar = <<>>
    ELSE IF t.hands[currentPlayer] = <<>>
    THEN t.phase = "gameover"
    ELSE t.phase = "discard" /\ t.currentPlayer = currentPlayer

(* C16: discardCards outcome.  In the discard phase, once the value of the *)
(* cards discarded over the calls of this attack reaches discardNeeded the *)
(* phase returns to play, the turn passes on and discardNeeded and         *)
(* discardedSoFar are reset; if the hand is empty with the value still     *)
(* below discardNeeded the phase is gameover, whatever the other hands and *)
(* the tavern hold; otherwise the phase stays discard with the same        *)
(* player.                                                                 *)
C16_DiscardOutcome ==
    \A call \in Accepted("discardCards") :
        LET t == Apply(State, call).state
            paid == handValue(discardedSoFar)
                    + handValue(hands[currentPlayer]) - handValue(t.hands[currentPlayer])
        IN  DiscardRule(t, paid)

(* C17: a yield costs a card.  Every successful yieldTurn by a player      *)
(* whose hand is not empty moves exactly one card from that hand to the    *)
(* discard pile; only with an empty hand does a yield discard nothing.     *)
C17_YieldCostsCard ==
    \A call \in Accepted("yieldTurn") :
        LET t == Apply(State, call).state
            hand == hands[currentPlayer]
        IN  IF hand = <<>>
            THEN t.discard = discard
            ELSE \E i \in 1..Len(hand) :
                    /\ t.hands[currentPlayer] = SpliceOut(hand, i)
                    /\ t.discard = Append(discard, hand[i])

\* the hand size of the mode: 8, 7, 6, 5 cards for 1, 2, 3, 4 players
MaxHand == 9 - playerCount

(* C18: playJoker hand reset.  In turn and in the play phase playJoker     *)
(* succeeds exactly when the resource is there (solo: jokersAvailable > 0, *)
(* then one less; two or more players: a Joker in the hand, which goes to  *)
(* the discard pile).  After a success every card of the old hand is in    *)
(* the discard pile and the new hand is the top min(max hand size, tavern  *)
(* size) cards of the tavern; without the resource the call fails and      *)
(* changes nothing.                                                        *)
C18_JokerHandReset ==
    phase = "play" =>
        \A call \in Due("playJoker") :
            LET out == Apply(State, call)
                t == out.state
                hand == hands[currentPlayer]
                resource == IF playerCount = 1 THEN jokersAvailable > 0 ELSE Some(hand, IsJoker)
                k == Min(MaxHand, Len(tavern))
            IN  IF ~resource
                THEN Rejected(State, call)
                ELSE /\ out.result.success
                     /\ playerCount = 1 => t.jokersAvailable = jokersAvailable - 1
                     /\ Len(t.discard) = Len(discard) + Len(hand)
                     /\ IsPrefix(discard, t.discard)
                     /\ \A i \in 1..Len(hand) : Count(t.discard, hand[i]) = Count(discard, hand[i]) + 1
                     /\ t.hands[currentPlayer] = [i \in 1..k |-> tavern[Len(tavern) + 1 - i]]
                     /\ t.tavern = SubSeq(tavern, 1, Len(tavern) - k)

\* two players: the Joker was played from the hand and lies in the discard
\* pile with the rest of the old hand, the new hand is full
C18_Witness ==
    /\ last.call.op = "playJoker"
    /\ playerCount = 2
    /\ Includes(discard, Joker(1))
    /\ ~Includes(hands[currentPlayer], Joker(1))
    /\ Len(hands[currentPlayer]) = 7

\* the step is an accepted call (of the walkthrough or of the callers' choice)
AcceptedStep == pos' # pos \/ ops' # ops

\* the step reveals a new enemy: a reset, or a defeat with the castle not empty
Reveals ==
    \/ last'.call.op = "reset"
    \/ enemiesDefeated' = enemiesDefeated + 1 /\ phase' # "victory"

\* what the step adds to the shield by the rules: the summed card values of an
\* accepted play that holds a spade, unless the enemy is a spade
ShieldGain ==
    IF AcceptedStep /\ last'.call.op = "playCards"
    THEN LET cards == Named(last'.call.cardIds)
         IN  IF (\E i \in 1..Len(cards) : cards[i].suit = "spades") /\ currentEnemy.suit # "spades"
             THEN SumSeq([i \in 1..Len(cards) |-> cardValue(cards[i])])
             ELSE 0
    ELSE 0

\* a reveal leaves the shield at 0; any other step adds the gain of the step
ShieldStep ==
    IF Reveals THEN shieldAmount' = 0 ELSE shieldAmount' = shieldAmount + ShieldGain

(* C19: shield accumulation.  The shield is 0 when an enemy is revealed    *)
(* and grows, step by step, by the base damage of each successful play     *)
(* holding a spade against an enemy that is not a spade: it is the sum of  *)
(* those plays since the reveal, never decreases during an encounter and   *)
(* goes back to 0 by the reveal of a new enemy only.                       *)
C19_ShieldAccumulation == shieldAmount = 0 /\ [][ShieldStep]_vars

\* the shield holds more than the spade just played alone gave it: earlier
\* spade plays against this enemy are in it
C19_Witness ==
    /\ last.call.op = "playCards"
    /\ HasEvent(last.result, "spades", "spades")
    /\ phase # "victory"
    /\ Len(last.call.cardIds) = 1
    /\ \E c \in AllCards(playerCount) :
          /\ c.id = last.call.cardIds[1]
          /\ c.suit = "spades"
          /\ shieldAmount > cardValue(c)

\* the cards held in all hands together
Held(hs) == SumSeq([k \in 1..playerCount |-> Len(hs[k - 1])])

\* `left` cards handed out one at a time from the top of the tavern, round
\* robin from player p on, passing over the players whose hand is full
RECURSIVE handOut(_, _, _, _)
handOut(hs, tav, left, p) ==
    IF left = 0 \/ tav = <<>> \/ \A q \in DOMAIN hs : Len(hs[q]) >= MaxHand
    THEN hs
    ELSE IF Len(hs[p]) >= MaxHand
    THEN handOut(hs, tav, left, (p + 1) % playerCount)
    ELSE handOut([hs EXCEPT ![p] = Append(@, Top(tav))], Popped(tav), left - 1,
                 (p + 1) % playerCount)

(* C20: diamonds draw count.  When the diamonds power fires (a diamond in  *)
(* the combo, the enemy not a diamond) cards go one at a time from the top *)
(* of the tavern to the players, round robin from the acting player on,    *)
(* passing over full hands, and min(base damage, tavern size) cards are    *)
(* drawn in all whenever the hands have that much room together.           *)
C20_DiamondsDraw ==
    \A call \in Accepted("playCards") :
        LET cards == Named(call.cardIds)
            base == SumSeq([i \in 1..Len(cards) |-> cardValue(cards[i])])
            before == [hands EXCEPT ![currentPlayer] = removeFromHand(@, cards)]
            after == Apply(State, call).state.hands
            count == Min(base, Len(tavern))
            room == playerCount * MaxHand - Held(before)
        IN  ((\E i \in 1..Len(cards) : cards[i].suit = "diamonds") /\ currentEnemy.suit # "diamonds")
            => /\ after = handOut(before, tavern, count, currentPlayer)
               /\ room >= count => Held(after) - Held(before) = count

(* C21: hearts recovery.  When the hearts power fires (a heart in the      *)
(* combo, the enemy not a heart) exactly min(base damage, discard size)    *)
(* cards leave the top of the discard pile and lie at the bottom of the    *)
(* tavern, below every card that was there, in the order they had in the   *)
(* discard pile; the cards of the play are not among them: they go on the  *)
(* discard pile after the powers.                                          *)
C21_HeartsRecovery ==
    \A call \in Accepted("playCards") :
        LET cards == Named(call.cardIds)
            base == SumSeq([i \in 1..Len(cards) |-> cardValue(cards[i])])
            out == Apply(State, call)
            t == out.state
            k == Min(base, Len(discard))
            kept == SubSeq(discard, 1, Len(discard) - k)
            moved == SubSeq(discard, Len(discard) - k + 1, Len(discard))
            diamonds == \E i \in 1..Len(cards) : cards[i].suit = "diamonds"
        IN  ((\E i \in 1..Len(cards) : cards[i].suit = "hearts") /\ currentEnemy.suit # "hearts")
            => /\ \E drawn \in 0..Len(tavern) :
                     /\ t.tavern = moved \o SubSeq(tavern, 1, Len(tavern) - drawn)
                     /\ ~diamonds => drawn = 0
               /\ IsPrefix(kept \o cards, t.discard)
               /\ Len(t.discard) <= Len(kept) + Len(cards) + 1
               /\ \A i \in 1..Len(cards) : ~Includes(moved, cards[i])

\* the 5 of Hearts was played on a discard pile of five cards: the five lie
\* at the bottom of the tavern in the order they were discarded, the 5 of
\* Hearts alone is on the discard pile
C21_Witness ==
    /\ last.call = Call("playCards", 0, <<"5_hearts">>)
    /\ HasEvent(last.result, "hearts", "hearts")
    /\ Len(tavern) > 5
    /\ [i \in 1..5 |-> tavern[i].id] = <<"A_spades", "10_clubs", "A_clubs", "9_spades", "J_diamonds">>
    /\ discard = <<Card("5", "hearts")>>

\* the tier of an enemy: 1 for a Jack, 2 for a Queen, 3 for a King
Tier(c) == IF c.rank = "J" THEN 1 ELSE IF c.rank = "Q" THEN 2 ELSE 3

\* no enemy waiting in the castle is of a lower tier than the active enemy or
\* than an enemy before it in the queue; the tier follows the count of defeats
TiersInOrder ==
    /\ \A i \in 1..Len(castle) : Tier(castle[i]) >= Tier(currentEnemy)
    /\ \A i, j \in 1..Len(castle) : i < j => Tier(castle[i]) <= Tier(castle[j])
    /\ IsFace(currentEnemy)
    /\ phase # "victory" =>
          /\ Len(castle) = 11 - enemiesDefeated
          /\ Tier(currentEnemy) = (enemiesDefeated \div 4) + 1

\* within a match the tier of the active enemy does not go down
TierStep == last'.call.op = "reset" \/ Tier(currentEnemy') >= Tier(currentEnemy)

(* C22: enemy order.  The rank of the active enemy never goes down over a  *)
(* match: the four Jacks are revealed before any Queen, the four Queens    *)
(* before any King, and no Queen or King is active while an enemy of a     *)
(* lower tier waits in the castle.                                         *)
C22_EnemyOrder == []TiersInOrder /\ [][TierStep]_vars

\* the eighth enemy has fallen: the first King is active, three Kings wait
C22_Witness ==
    /\ enemiesDefeated = 8
    /\ phase = "play"
    /\ currentEnemy.rank = "K"
    /\ Len(castle) = 3
    /\ last.call.op = "playCards"
    /\ last.result.flag = "defeated"

\* the cards of all hands
InHands == UNION {ToSet(hands[p]) : p \in DOMAIN hands}

(* C23: initial state.  For 1 to 4 players, construction and reset leave   *)
(* phase play, player 0 to move, one hand per player of 8, 7, 6, 5 cards   *)
(* for 1, 2, 3, 4 players, an empty discard pile, discardNeeded 0, a Jack  *)
(* as enemy with HP 20, attack 10 and shield 0, 11 enemies in the castle   *)
(* and the rest of the deck in the tavern.                                 *)
C23_InitialState ==
    last.call.op = "reset" =>
        /\ playerCount \in 1..4
        /\ phase = "play"
        /\ currentPlayer = 0
        /\ DOMAIN hands = 0..(playerCount - 1)
        /\ \A p \in DOMAIN hands :
              Len(hands[p]) = (CASE playerCount = 1 -> 8 [] playerCount = 2 -> 7
                                 [] playerCount = 3 -> 6 [] playerCount = 4 -> 5)
        /\ discard = <<>>
        /\ discardNeeded = 0
        /\ currentEnemy.rank = "J"
        /\ currentEnemyHP = 20
        /\ currentEnemyAttack = 10
        /\ shieldAmount = 0
        /\ Len(castle) = 11
        /\ ToSet(tavern) \cup InHands = ToSet(createDeck(playerCount))
        /\ Len(tavern) + Held(hands) = Len(createDeck(playerCount))

\* a match of three players was reset: three hands of six, 23 cards in the tavern
C23_Witness ==
    /\ last.call.op = "reset"
    /\ playerCount = 3
    /\ \A p \in 0..2 : Len(hands[p]) = 6
    /\ Len(tavern) = 23
    /\ Len(castle) = 11

(* C24: discard progress.  In a discard phase every successful            *)
(* discardCards call that leaves the attack unpaid strictly increases the  *)
(* value accumulated in discardedSoFar, and discardNeeded is never         *)
(* negative.                                                               *)
C24_DiscardProgress ==
    /\ discardNeeded >= 0
    /\ \A call \in Accepted("discardCards") :
          LET t == Apply(State, call).state
          IN  t.phase # "play" => handValue(t.discardedSoFar) > handValue(discardedSoFar)

\* the partner is to play: player 1 of a two-player game in the play phase
AiTurn == playerCount = 2 /\ phase = "play" /\ currentPlayer = 1

(* C25: the partner never proposes an illegal action.  Whenever it is the  *)
(* partner's turn in the play phase, the engine accepts the action         *)
(* decidePlay returns: a play lists ids of cards of the partner's hand     *)
(* that form a combo isValidCombo accepts, and a yield names the card of   *)
(* lowest value of the hand (no card only when the hand is empty).         *)
C25_AiActionLegal ==
    AiTurn =>
        LET decision == decidePlay(State, 1)
            hand == hands[1]
            ids == decision.cardIds
        IN  IF decision.type = "play"
            THEN /\ \A i \in 1..Len(ids) : ids[i] \in handIds(State, 1)
                 /\ Len(Resolve(hand, ids)) = Len(ids)
                 /\ isValidCombo(Resolve(hand, ids))
                 /\ playCards(State, 1, ids).result.success
            ELSE /\ decision.type = "yield"
                 /\ ids = <<>> <=> hand = <<>>
                 /\ ids # <<>> =>
                       /\ Len(ids) = 1
                       /\ \E i \in 1..Len(hand) :
                             /\ hand[i].id = ids[1]
                             /\ \A j \in 1..Len(hand) : cardValue(hand[i]) <= cardValue(hand[j])
                 /\ yieldTurn(State, 1, IF ids = <<>> THEN NoId ELSE ids[1]).result.success

\* the partner, left with the two jokers, yielded and named a joker
C25_Witness ==
    /\ playerCount = 2
    /\ last.call = Call("yieldTurn", 1, <<"Joker_1">>)
    /\ last.result.success
    /\ ToSet(hands[1]) = {Joker(2)}

\* the lists of cards of a hand, one for each set of its positions, in hand order
SubHands(hand) ==
    {[i \in 1..Cardinality(picked) |->
         hand[CHOOSE k \in picked : Cardinality({j \in picked : j < k}) = i - 1]] :
       picked \in SUBSET (1..Len(hand))}

\* getAllValidPlays returns the cards of `cards` as one of its plays
Enumerated(hand, cards) ==
    \E i \in 1..Len(getAllValidPlays(hand)) : ToSet(getAllValidPlays(hand)[i]) = ToSet(cards)

\* the subsets of the partner's hand that isValidCombo accepts and getAllValidPlays leaves out
Overlooked == {cards \in SubHands(hands[1]) : isValidCombo(cards) /\ ~Enumerated(hands[1], cards)}

(* C26: the partner's enumeration is complete.  For every hand, every      *)
(* subset of the hand that isValidCombo accepts is, as a set of cards, one *)
(* of the plays getAllValidPlays returns, animal-companion combos with     *)
(* every number of aces from 1 to the number of aces in the hand included. *)
C26_EnumerationComplete == AiTurn => Overlooked = {}

\* the partner is to pay: player 1 of a two-player game in the discard phase
AiPays == playerCount = 2 /\ phase = "discard" /\ currentPlayer = 1

\* what is left to pay
Remaining == discardNeeded - handValue(discardedSoFar)

\* `cards` are the highest cards of `hand`, highest first, and no more of them than r asks for
GreedyChoice(hand, cards, r) ==
    /\ \A i \in 1..(Len(cards) - 1) : cardValue(cards[i]) >= cardValue(cards[i + 1])
    /\ \A i \in 1..Len(hand) :
          ~Includes(cards, hand[i]) => cardValue(hand[i]) <= cardValue(cards[Len(cards)])
    /\ handValue(cards) >= r
    /\ handValue(SubSeq(cards, 1, Len(cards) - 1)) < r

(* C27: the partner's discard choice.  For a non-empty hand and r > 0 left *)
(* to pay, decideDiscard returns (a) one card, of the smallest value that  *)
(* is at least r, when some card has a value of at least r; otherwise (b)  *)
(* the highest cards in descending order until their total first reaches   *)
(* r, when the hand is worth at least r; otherwise (c) the whole hand.  In *)
(* cases (a) and (b) the total is at least r and one discardCards call     *)
(* with the choice ends the discard phase.                                 *)
C27_DiscardChoice ==
    (AiPays /\ hands[1] # <<>> /\ Remaining > 0) =>
        LET hand == hands[1]
            r == Remaining
            ids == decideDiscard(State, 1)
            cards == Resolve(hand, ids)
            after == discardCards(State, 1, ids)
            Covering == {i \in 1..Len(hand) : cardValue(hand[i]) >= r}
        IN  /\ Len(cards) = Len(ids)
            /\ \A i, j \in 1..Len(ids) : ids[i] = ids[j] => i = j
            /\ IF Covering # {}
               THEN /\ Len(cards) = 1
                    /\ cardValue(cards[1]) >= r
                    /\ \A i \in Covering : cardValue(cards[1]) <= cardValue(hand[i])
               ELSE IF handValue(hand) >= r
               THEN Len(cards) >= 2 /\ GreedyChoice(hand, cards, r)
               ELSE ToSet(cards) = ToSet(hand) /\ Len(cards) = Len(hand)
            /\ handValue(hand) >= r =>
                  /\ handValue(cards) >= r
                  /\ after.result.success
                  /\ after.state.phase = "play"

\* the partner, with no card worth the 10 to pay, discarded several cards
\* highest first and the discard phase ended
C27_Witness ==
    /\ last.call.op = "discardCards"
    /\ last.call.playerIndex = 1
    /\ Len(last.call.cardIds) >= 3
    /\ last.result.success
    /\ phase = "play"
    /\ hands[1] # <<>>

C29_ClubsConfined ==
    \A call \in Accepted("playCards") :
        LET cards == Named(call.cardIds)
            base == SumSeq([i \in 1..Len(cards) |-> cardValue(cards[i])])
            suits == {cards[i].suit : i \in 1..Len(cards)}
            enemy == currentEnemy.suit
            out == Apply(State, call)
            after == out.state
            defeated == out.result.flag = "defeated"
            doubled == "clubs" \in suits /\ enemy # "clubs"
            applied == IF doubled THEN 2 * base ELSE base
            played == [State EXCEPT !.hands[currentPlayer] = removeFromHand(@, cards)]
            drawCount == IF "diamonds" \in suits /\ enemy # "diamonds"
                         THEN Min(base, Len(tavern)) ELSE 0
            healCount == IF "hearts" \in suits /\ enemy # "hearts"
                         THEN Min(base, Len(discard)) ELSE 0
            expected == drawDiamonds(played, currentPlayer, drawCount, 0)
        IN  /\ (doubled \/ "clubs" \notin suits) =>
                  /\ \E i \in 1..Len(out.result.events) :
                        out.result.events[i] = Event("damage", "", applied)
                  /\ defeated <=> currentEnemyHP - applied <= 0
                  /\ ~defeated => after.currentEnemyHP = currentEnemyHP - applied
            /\ doubled =>
                  /\ after.hands = expected.hands
                  /\ Len(after.tavern) = Len(expected.tavern) + healCount
                  /\ ("spades" \in suits /\ enemy # "spades" /\ ~defeated) =>
                        after.shieldAmount = shieldAmount + base

\* a club and a spade played together against the Jack of Hearts: 8 off its
\* HP and 4 on the shield
C29_Witness ==
    /\ last.call = Call("playCards", 0, <<"2_clubs", "2_spades">>)
    /\ last.result.success
    /\ currentEnemy = Card("J", "hearts")
    /\ currentEnemyHP = 20 - 8
    /\ shieldAmount = 4

\* the amounts of the events of one type in a result, summed
EventAmount(result, type) ==
    SumSeq([i \in 1..Len(result.events) |->
               IF result.events[i].type = type THEN result.events[i].amount ELSE 0])

\* the cards of the current player's hand that a call takes out of it
LeftHand(call) ==
    LET Gone(c) == ~Includes(Apply(State, call).state.hands[currentPlayer], c)
    IN  SelectSeq(hands[currentPlayer], Gone)

(* C30: played-card accounting.  For every successful playCards call, with *)
(* any list of ids, one that repeats an id included, the base damage is    *)
(* the sum of the values of the cards that left the hand, and the play     *)
(* adds as many cards to the discard pile as it removed from the hand.     *)
C30_PlayedCardAccounting ==
    \A call \in Accepted("playCards") :
        LET out == Apply(State, call)
            after == out.state
            left == LeftHand(call)
            base == handValue(left)
            doubled == "clubs" \in comboSuits(left) /\ currentEnemy.suit # "clubs"
            dealtDamage == EventAmount(out.result, "damage")
            exactKill == out.result.flag = "defeated" /\ currentEnemyHP - dealtDamage = 0
            added == Len(after.discard) - Len(discard) + EventAmount(out.result, "hearts")
                     - (IF exactKill THEN 1 ELSE 0)
        IN  /\ dealtDamage = (IF doubled THEN 2 * base ELSE base)
            /\ added = Len(left)

(* C31: the attack is fully paid.  A discard phase ends with survival (the *)
(* phase back to play) only if the summed value of the cards actually      *)
(* moved from the current player's hand to the discard pile since the      *)
(* phase was entered is at least discardNeeded, for every list of ids      *)
(* passed to discardCards, lists that repeat an id included.               *)
C31_AttackFullyPaid ==
    \A call \in Accepted("discardCards") :
        LET t == Apply(State, call).state
            moved == handValue(hands[currentPlayer]) - handValue(t.hands[currentPlayer])
        IN  t.phase = "play" => handValue(discardedSoFar) + moved >= discardNeeded

(* C32: no stuck discard phase.  Whenever the phase is discard the current *)
(* player holds at least one card, so that some discardCards call can      *)
(* succeed: the engine never rests in the discard phase with the current   *)
(* player's hand empty, a state in which all four operations are rejected. *)
C32_NoStuckDiscard ==
    phase = "discard" =>
        /\ hands[currentPlayer] # <<>>
        /\ \E call \in AllCalls : Apply(State, call).result.success

(* C33: enemy HP bounds.  In every reachable state with phase play or     *)
(* discard, once an operation has completed, 1 <= currentEnemyHP <=        *)
(* currentEnemyMaxHP: a value of 0 or less is never left standing for an   *)
(* enemy that is still the one to fight.                                   *)
C33_EnemyHPBounds ==
    phase \in {"play", "discard"} =>
        /\ 1 <= currentEnemyHP
        /\ currentEnemyHP <= currentEnemyMaxHP
        /\ currentEnemyMaxHP = enemyMaxHP(currentEnemy)

\* a play has wounded the enemy without defeating it, and the enemy attacks
C33_Witness ==
    /\ last.call.op = "playCards"
    /\ last.result.flag = "attack"
    /\ phase = "discard"
    /\ 1 <= currentEnemyHP
    /\ currentEnemyHP < currentEnemyMaxHP

\* the count of defeats matches the castle, and the match is won exactly when
\* twelve enemies have fallen and the castle is empty
DefeatsCounted ==
    /\ phase \in {"play", "discard", "gameover"} => enemiesDefeated + Len(castle) + 1 = 12
    /\ phase = "victory" <=> (enemiesDefeated = 12 /\ castle = <<>>)

\* within a match the count of defeats does not go down
DefeatsStep == last'.call.op = "reset" \/ enemiesDefeated' >= enemiesDefeated

(* C34: defeat counter.  In every reachable state with phase play, discard *)
(* or gameover, enemiesDefeated + castle size + 1 = 12; the phase is       *)
(* victory exactly when enemiesDefeated = 12 and the castle is empty;      *)
(* enemiesDefeated never decreases.                                        *)
C34_DefeatCounter == []DefeatsCounted /\ [][DefeatsStep]_vars

\* the fifth enemy has just fallen: six enemies wait behind the active one
C34_Witness ==
    /\ last.call.op = "playCards"
    /\ last.result.flag = "defeated"
    /\ enemiesDefeated = 5
    /\ Len(castle) = 6
    /\ phase = "play"

(* C35: hand size cap.  In every reachable state each player's hand holds *)
(* at most the maximum hand size of the mode (8, 7, 6, 5 cards for 1, 2,   *)
(* 3, 4 players): neither a diamonds draw nor the redraw of playJoker      *)
(* takes a hand above it.                                                  *)
C35_HandSizeCap ==
    /\ getMaxHandSize(State) = (CASE playerCount = 1 -> 8 [] playerCount = 2 -> 7
                                  [] playerCount = 3 -> 6 [] playerCount = 4 -> 5)
    /\ \A p \in DOMAIN hands : Len(hands[p]) <= getMaxHandSize(State)

\* a diamonds play drew fewer cards than its value although the tavern held
\* more: every hand is full
C35_Witness ==
    /\ last.call.op = "playCards"
    /\ HasEvent(last.result, "diamonds", "diamonds")
    /\ Len(last.call.cardIds) = 1
    /\ \E c \in AllCards(playerCount) :
          /\ c.id = last.call.cardIds[1]
          /\ EventAmount(last.result, "diamonds") < cardValue(c)
    /\ tavern # <<>>
    /\ \A p \in DOMAIN hands : Len(hands[p]) = getMaxHandSize(State)

(* C36: discard bookkeeping.  In every reachable state, phase play or     *)
(* victory implies discardNeeded = 0 and an empty discardedSoFar; phase    *)
(* discard implies 1 <= discardNeeded <= the base attack of the active     *)
(* enemy and a total value of discardedSoFar strictly below discardNeeded. *)
C36_DiscardBookkeeping ==
    /\ phase \in {"play", "victory"} => (discardNeeded = 0 /\ discardedSoFar = <<>>)
    /\ phase = "discard" =>
          /\ 1 <= discardNeeded
          /\ discardNeeded <= enemyAttack(currentEnemy)
          /\ handValue(discardedSoFar) < discardNeeded

\* part of the attack is paid: a discard left the phase at discard
C36_Witness ==
    /\ phase = "discard"
    /\ last.call.op = "discardCards"
    /\ last.result.flag = "remaining"
    /\ discardedSoFar # <<>>
    /\ handValue(discardedSoFar) >= 1

\* the tavern is drawn from its top and fed at its bottom: a step takes some
\* cards off the top and puts some cards, the top ones of the discard pile,
\* below all the others (a reset deals a new tavern)
TavernStep ==
    \/ last'.call.op = "reset"
    \/ \E drawn \in 0..Len(tavern), recovered \in 0..Len(discard) :
          tavern' = SubSeq(discard, Len(discard) - recovered + 1, Len(discard))
                    \o SubSeq(tavern, 1, Len(tavern) - drawn)

(* C37: recovered cards are drawn last.  A card moved from the discard     *)
(* pile to the tavern by a hearts play is drawn (by diamonds or by         *)
(* playJoker) only after every card that was in the tavern at the moment   *)
(* of the recovery has been drawn: every step leaves the cards that stay   *)
(* in the tavern in their order, takes cards from the top only and puts    *)
(* recovered cards below all of them.                                      *)
C37_RecoveredDrawnLast == [][TavernStep]_vars

\* an enemy killed exactly and recovered by a hearts play has been drawn: it
\* is in a hand after a draw
C37_Witness ==
    /\ \/ last.call.op = "playJoker"
       \/ last.call.op = "playCards" /\ HasEvent(last.result, "diamonds", "diamonds")
    /\ \E p \in DOMAIN hands : Some(hands[p], IsFace)

\* the plays the partner scores on its turn
Candidates == ToSet(getAllValidPlays(hands[1]))

\* what the engine does with a play the partner scores
Played(cards) == Apply(State, Call("playCards", 1, Ids(cards)))

(* C38: the partner's lethal prediction agrees with the engine.  On the    *)
(* partner's turn, for every play it scores: when scorePlay counts the     *)
(* play as a kill (its total damage is at least the enemy's HP), playCards *)
(* with that play defeats the enemy; and when scorePlay gives the          *)
(* exact-kill bonus (total damage equal to the HP), the engine brings the  *)
(* HP to exactly 0 and the enemy joins the discard pile.                   *)
C38_LethalPrediction ==
    AiTurn =>
        \A cards \in Candidates :
            /\ totalDamage(cards) >= currentEnemyHP =>
                  Played(cards).result.flag = "defeated"
            /\ totalDamage(cards) = currentEnemyHP =>
                  /\ EventAmount(Played(cards).result, "damage") = currentEnemyHP
                  /\ Played(cards).dropped = {}
                  /\ Includes(Played(cards).state.discard, currentEnemy)

====
